---------------------------- MODULE Spec2Model ----------------------------
(***************************************************************************)
(* The rate-limiting core of Owaiken: SlidingWindowCounter,                *)
(* RedisRateLimiter, OwaikanRateLimiter (streamlit_pages/rate_limiting.py) *)
(* and SecurityManager.rate_limit and secure_function                      *)
(* (streamlit_pages/security_manager.py).                                  *)
(*                                                                         *)
(* Time is the value time.time() returns, counted in whole ticks.          *)
(***************************************************************************)
EXTENDS Integers, Sequences, FiniteSets, TLC

VARIABLES
    now,       \* the wall clock, time.time()
    counter,   \* one SlidingWindowCounter used directly by a caller
    calls,     \* the calls made directly on a counter: <<[t, ok], ...>>, oldest first
    redis_url, \* RedisRateLimiter.redis_url as resolved by __init__
    enabled,   \* RedisRateLimiter.enabled
    limiters,  \* RedisRateLimiter._in_memory_limiters: key -> SlidingWindowCounter
    store,     \* the keys of the Redis server: key -> [value, has_ttl, expires_at]
    storeUp,   \* the Redis server accepts commands
    args,      \* (max_requests, window_seconds) of a caller of is_rate_limited
    last,      \* what the last call of check_rate_limit / rate_limit did
    ncalls,    \* the calls of check_rate_limit / rate_limit made so far
    pc,        \* the threads or processes inside is_rate_limited: where each one is
    has_limiters, \* hasattr(self, '_in_memory_limiters'), where threads interleave
    session,   \* st.session_state: key -> value
    bucket,     \* one TokenBucket: [rate, capacity, tokens, last_refill]
    mfa,  \* MFA: configuration, stored mfa_data, the last rerun and its history
    license,  \* LicenseManager, its environment, the saved licence file and the last call
    env_file  \* env_vars.json: whether it exists, its content, and the last call on it

vars == <<now, counter, calls, redis_url, enabled, limiters, store, storeUp, args, last,
          ncalls, pc, has_limiters, session, bucket, mfa, license, env_file>>

-----------------------------------------------------------------------------
(* Bounds of the exploration *)

MaxNow      == 3   \* the clock stops advancing here
MaxWindow   == 2   \* window_size of the directly used counter: 0..MaxWindow
MaxRequests == 3   \* max_requests of the directly used counter: 0..MaxRequests
MaxCalls    == 5   \* calls recorded on the directly used counter
MaxOps      == 3   \* calls of check_rate_limit / rate_limit in one session
MaxProcCalls == 3  \* calls of is_rate_limited made by concurrent processes
MaxRate     == 2   \* rate of the token bucket: 1..MaxRate

-----------------------------------------------------------------------------
(* TokenBucket. rate, capacity and the token count are floats in the source; *)
(* here they are whole numbers of tokens, and rate is tokens per tick.       *)

NoBucket == [rate |-> 0, capacity |-> 0, tokens |-> 0, last_refill |-> 0]

\* TokenBucket.__init__ at clock value t
TokenBucket(rate, capacity, t) ==
    [rate |-> rate, capacity |-> capacity, tokens |-> capacity, last_refill |-> t]

\* min(a, b)
min(a, b) == IF b < a THEN b ELSE a

\* TokenBucket.consume(tokens) at clock value t: the bucket afterwards, the
\* value returned and the token count after the refill
consume(b, tokens, t) ==
    LET elapsed == t - b.last_refill
        refilled == min(b.capacity, b.tokens + elapsed * b.rate)
    IN  IF tokens <= refilled
        THEN [bucket |-> [b EXCEPT !.tokens = refilled - tokens, !.last_refill = t],
              ok |-> TRUE, refilled |-> refilled]
        ELSE [bucket |-> [b EXCEPT !.tokens = refilled, !.last_refill = t],
              ok |-> FALSE, refilled |-> refilled]

-----------------------------------------------------------------------------
(* SlidingWindowCounter *)

\* SlidingWindowCounter.__init__ with its two arguments taken in the other order
SlidingWindowCounter_Swapped(window_size, max_requests) ==
    [window_size |-> max_requests, max_requests |-> window_size, requests |-> <<>>]

\* SlidingWindowCounter.__init__
SlidingWindowCounter(window_size, max_requests) ==
    [window_size |-> window_size, max_requests |-> max_requests, requests |-> <<>>]

\* LiveRequests with the pruning left out
LiveRequests_NoPrune(c, t) ==
    c.requests

\* LiveRequests of a fixed-window counter: the timestamps of the clock-aligned
\* window that t is in
LiveRequests_FixedWindow(c, t) ==
    LET live(ts) == c.window_size > 0 /\ (ts \div c.window_size) = (t \div c.window_size)
    IN  SelectSeq(c.requests, live)

\* self.requests = [ts for ts in self.requests if now - ts < self.window_size]
LiveRequests(c, t) ==
    LET live(ts) == t - ts < c.window_size
    IN  SelectSeq(c.requests, live)

\* check_and_record with the limit test off by one (<= for <)
check_and_record_OffByOne(c, t) ==
    LET kept == LiveRequests(c, t)
    IN  IF Len(kept) <= c.max_requests
        THEN [counter |-> [c EXCEPT !.requests = Append(kept, t)], allowed |-> TRUE]
        ELSE [counter |-> [c EXCEPT !.requests = kept], allowed |-> FALSE]

\* check_and_record appending the timestamp of a rejected call too
check_and_record_RecordsRejected(c, t) ==
    LET kept == LiveRequests(c, t)
    IN  [counter |-> [c EXCEPT !.requests = Append(kept, t)],
         allowed |-> Len(kept) < c.max_requests]

\* check_and_record putting the timestamp of an accepted call in front
check_and_record_Prepend(c, t) ==
    LET kept == LiveRequests(c, t)
    IN  IF Len(kept) < c.max_requests
        THEN [counter |-> [c EXCEPT !.requests = <<t>> \o kept], allowed |-> TRUE]
        ELSE [counter |-> [c EXCEPT !.requests = kept], allowed |-> FALSE]

\* SlidingWindowCounter.check_and_record at clock value t:
\* the counter afterwards and the value returned
check_and_record(c, t) ==
    LET kept == LiveRequests(c, t)
    IN  IF Len(kept) < c.max_requests
        THEN [counter |-> [c EXCEPT !.requests = Append(kept, t)], allowed |-> TRUE]
        ELSE [counter |-> [c EXCEPT !.requests = kept], allowed |-> FALSE]


-----------------------------------------------------------------------------
(* The Redis server, as far as the limiter uses it *)

EmptyMap == [k \in {} |-> 0]

\* the values of the MFA flows before anything happened
NoCode == <<>>

\* what display_mfa_enrollment returns before the enrollment is complete
NoData == [user_id |-> "", secret |-> "", hashed_recovery_codes |-> <<>>,
           enabled |-> FALSE, enrolled_at |-> 0]

NoStart == [secret |-> "", codes |-> <<>>, hashed |-> <<>>]

NoMFA ==
    [st_secrets |-> EmptyMap, environ |-> EmptyMap, mfa_data |-> NoData,
     rendered |-> {}, returned |-> NoData, accepted |-> FALSE,
     call |-> [fn |-> "none", button |-> "none", code |-> NoCode, step |-> 0,
               used_before |-> {}],
     started |-> NoStart, issued |-> <<>>, used |-> {}]

\* no file ~/.owaiken_license
NoFile == "<no file>"

\* the licence manager before anything happened, outside cloud and dev mode
NoLicense ==
    [is_cloud |-> FALSE, dev_mode |-> FALSE, account_id |-> "", product_id |-> "",
     license_key |-> "", file |-> NoFile,
     call |-> [fn |-> "none", license_key |-> "", ok |-> FALSE, message |-> "",
               file_before |-> NoFile]]

\* env_vars.json before anything was saved: no file
NoEnvFile ==
    [exists |-> FALSE, env_vars |-> EmptyMap,
     call |-> [fn |-> "none", profile_name |-> "", ok |-> FALSE, existed |-> FALSE,
               before |-> EmptyMap]]

\* INCR that loses the update of a key that exists already
incr_Lost(s, key) ==
    IF key \in DOMAIN s
    THEN s
    ELSE (key :> [value |-> 1, has_ttl |-> FALSE, expires_at |-> 0]) @@ s

\* INCR key: a key that does not exist is created with value 1 and no expiry;
\* an existing key keeps its expiry
incr(s, key) ==
    IF key \in DOMAIN s
    THEN [s EXCEPT ![key].value = @ + 1]
    ELSE (key :> [value |-> 1, has_ttl |-> FALSE, expires_at |-> 0]) @@ s

\* EXPIRE key seconds, issued at time t
expire(s, key, seconds, t) ==
    [s EXCEPT ![key].has_ttl = TRUE, ![key].expires_at = t + seconds]

\* the keys left at time t: a key with an expiry is gone once t reaches it
ExpireKeys(s, t) ==
    LET left == { k \in DOMAIN s : ~s[k].has_ttl \/ t < s[k].expires_at }
    IN  [k \in left |-> s[k]]

-----------------------------------------------------------------------------
(* RedisRateLimiter *)

NoUrl        == "None"
WellFormed   == "redis://cache:6379/0"
Malformed    == "cache:6379"
Urls         == {NoUrl, WellFormed, Malformed}

\* redis.from_url(url) builds a client without connecting; it raises
\* ValueError for a URL whose scheme is not redis://, rediss:// or unix://
from_url_raises(url) ==
    url = Malformed

\* __init__ enabling the shared store whatever the configuration
RedisRateLimiter_enabled_Always(url) ==
    TRUE

\* RedisRateLimiter.__init__: the value of self.enabled
RedisRateLimiter_enabled(url) ==
    IF url # NoUrl
    THEN IF from_url_raises(url) THEN FALSE ELSE TRUE
    ELSE FALSE

\* RedisRateLimiter._get_key
get_key(identifier, window) ==
    "rate_limit" \o ":" \o identifier \o ":" \o window

\* the key of the in-memory fallback: f"{identifier}:{window_seconds}"
memory_key(identifier, window_seconds) ==
    identifier \o ":" \o ToString(window_seconds)

\* is_rate_limited blocking only past twice the limit
is_rate_limited_Lenient(L, identifier, max_requests, window_seconds, t, budget) ==
    LET key == get_key(identifier, ToString(window_seconds) \o "s")
        s1 == incr(L.store, key)
        current == s1[key].value
    IN  [L |-> [L EXCEPT !.store = IF current = 1
                                   THEN expire(s1, key, window_seconds, t) ELSE s1],
         limited |-> current > 2 * max_requests + 1, raised |-> FALSE,
         used |-> IF current = 1 THEN 2 ELSE 1, backend |-> "redis"]

\* is_rate_limited blocking already at the limit (>= for >)
is_rate_limited_AtLimit(L, identifier, max_requests, window_seconds, t, budget) ==
    LET key == get_key(identifier, ToString(window_seconds) \o "s")
        s1 == incr(L.store, key)
        current == s1[key].value
    IN  [L |-> [L EXCEPT !.store = IF current = 1
                                   THEN expire(s1, key, window_seconds, t) ELSE s1],
         limited |-> current >= max_requests, raised |-> FALSE,
         used |-> IF current = 1 THEN 2 ELSE 1, backend |-> "redis"]

\* A limiter is the record [enabled, limiters, store]. budget is the number of
\* Redis commands that still succeed before the connection is lost; a command
\* issued with budget 0 raises redis.ConnectionError.
\* RedisRateLimiter.is_rate_limited at clock value t: the limiter afterwards,
\* the value returned, whether the call raised, the commands that succeeded
\* and the backend that answered
is_rate_limited(L, identifier, max_requests, window_seconds, t, budget) ==
    IF ~L.enabled
    THEN LET key == memory_key(identifier, window_seconds)
             c == IF key \in DOMAIN L.limiters
                  THEN L.limiters[key]
                  ELSE SlidingWindowCounter(window_seconds, max_requests)
             r == check_and_record(c, t)
         IN  [L |-> [L EXCEPT !.limiters = (key :> r.counter) @@ L.limiters],
              limited |-> ~r.allowed, raised |-> FALSE, used |-> 0,
              backend |-> "memory"]
    ELSE LET key == get_key(identifier, ToString(window_seconds) \o "s")
             s1 == incr(L.store, key)
             current == s1[key].value
         IN  IF budget = 0
             THEN [L |-> L, limited |-> FALSE, raised |-> TRUE, used |-> 0,
                   backend |-> "redis"]
             ELSE IF current = 1
             THEN IF budget = 1
                  THEN [L |-> [L EXCEPT !.store = s1],
                        limited |-> FALSE, raised |-> TRUE, used |-> 1,
                        backend |-> "redis"]
                  ELSE [L |-> [L EXCEPT !.store = expire(s1, key, window_seconds, t)],
                        limited |-> current > max_requests, raised |-> FALSE, used |-> 2,
                        backend |-> "redis"]
             ELSE [L |-> [L EXCEPT !.store = s1],
                   limited |-> current > max_requests, raised |-> FALSE, used |-> 1,
                   backend |-> "redis"]

-----------------------------------------------------------------------------
(* OwaikanRateLimiter *)

\* The three windows of check_rate_limit, in ticks: the source's 60, 3600 and
\* 86400 seconds scaled down, keeping minute < hour < day.
MINUTE == 1
HOUR   == 2
DAY    == 3

\* OwaikanRateLimiter.tier_limits. The table keeps the source's shape: four
\* tiers, every threshold growing with the window and with the tier. The
\* magnitudes (30 .. 50000) are scaled down so that a burst can exhaust them.
tier_limits ==
    [free       |-> [minute |-> 1, hour |-> 2, day |-> 3],
     basic      |-> [minute |-> 2, hour |-> 3, day |-> 4],
     premium    |-> [minute |-> 3, hour |-> 4, day |-> 5],
     enterprise |-> [minute |-> 4, hour |-> 5, day |-> 6]]

\* a digest that is the same for every user
md5_hexdigest_Collide(user_id) ==
    "495f661bac0f61f6c7a4f0d6d4a0fb6b"

\* hashlib.md5(user_id.encode()).hexdigest()
md5_hexdigest(user_id) ==
    CASE user_id = "userA" -> "495f661bac0f61f6c7a4f0d6d4a0fb6b"
      [] user_id = "userB" -> "5cb11eb3bac6e8e0b57b002d631fc4e9"
      [] user_id = "anonymous" -> "294de3557d9d00b3d2d8a1e6aab028cf"
      [] user_id = "unknown" -> "ad921d60486366258809553a3db49a4a"
      [] user_id = "10.0.0.1" -> "190dafab69706a67221c1226360de7dc"
      [] user_id = "sess_token_1" -> "a6af862b91a8a6bfe0bfaae0e173365b"

\* limits_for falling back to the least restrictive tier
limits_for_Enterprise(tier) ==
    IF tier \in DOMAIN tier_limits THEN tier_limits[tier] ELSE tier_limits["enterprise"]

\* limits = self.tier_limits.get(tier, self.tier_limits["free"])
limits_for(tier) ==
    IF tier \in DOMAIN tier_limits THEN tier_limits[tier] ELSE tier_limits["free"]

NoResult ==
    [minute_limited |-> FALSE, hour_limited |-> FALSE,
     day_limited |-> FALSE, is_limited |-> FALSE]

\* check_rate_limit taking is_limited from the minute window alone
check_rate_limit_MinuteOnly(L, user_id, tier, t, budget) ==
    LET limits == limits_for(tier)
        hashed_id == md5_hexdigest(user_id)
        m == is_rate_limited(L, hashed_id \o ":minute", limits.minute, MINUTE, t, budget)
        h == IF m.raised THEN m
             ELSE is_rate_limited(m.L, hashed_id \o ":hour", limits.hour, HOUR, t,
                                  budget - m.used)
        d == IF h.raised THEN h
             ELSE is_rate_limited(h.L, hashed_id \o ":day", limits.day, DAY, t,
                                  budget - m.used - h.used)
    IN  IF d.raised
        THEN [L |-> d.L, raised |-> "ConnectionError", result |-> NoResult,
              evaluated |-> IF m.raised THEN 0 ELSE IF h.raised THEN 1 ELSE 2,
              backend |-> m.backend]
        ELSE [L |-> d.L, raised |-> "none",
              result |-> [minute_limited |-> m.limited,
                          hour_limited |-> h.limited,
                          day_limited |-> d.limited,
                          is_limited |-> m.limited],
              evaluated |-> 3, backend |-> m.backend]

\* OwaikanRateLimiter.check_rate_limit at clock value t: the limiter
\* afterwards, the exception raised ("none" if the call returned), the dict
\* returned, the number of windows evaluated and the backend that answered
check_rate_limit(L, user_id, tier, t, budget) ==
    LET limits == limits_for(tier)
        hashed_id == md5_hexdigest(user_id)
        m == is_rate_limited(L, hashed_id \o ":minute", limits.minute, MINUTE, t, budget)
        h == IF m.raised THEN m
             ELSE is_rate_limited(m.L, hashed_id \o ":hour", limits.hour, HOUR, t,
                                  budget - m.used)
        d == IF h.raised THEN h
             ELSE is_rate_limited(h.L, hashed_id \o ":day", limits.day, DAY, t,
                                  budget - m.used - h.used)
    IN  IF d.raised
        THEN [L |-> d.L, raised |-> "ConnectionError", result |-> NoResult,
              evaluated |-> IF m.raised THEN 0 ELSE IF h.raised THEN 1 ELSE 2,
              backend |-> m.backend]
        ELSE [L |-> d.L, raised |-> "none",
              result |-> [minute_limited |-> m.limited,
                          hour_limited |-> h.limited,
                          day_limited |-> d.limited,
                          is_limited |-> m.limited \/ h.limited \/ d.limited],
              evaluated |-> 3, backend |-> m.backend]

-----------------------------------------------------------------------------
(* SecurityManager *)

\* SecurityManager.rate_limit at clock value t: the limiter afterwards, what
\* check_rate_limit did, the exception raised ("none" if the call returned
\* the dict) and the RATE_LIMIT_EXCEEDED events handed to the security logger
rate_limit(L, user_id, tier, endpoint, t, budget) ==
    LET \* lines 70-80, with r the outcome of line 68
        after(r) ==
            LET check == [raised |-> r.raised, result |-> r.result,
                          evaluated |-> r.evaluated, backend |-> r.backend]
                window == IF r.result.minute_limited THEN "minute"
                          ELSE IF r.result.hour_limited THEN "hour" ELSE "day"
            IN  IF r.raised # "none"
                THEN [L |-> r.L, check |-> check, raised |-> r.raised, logged |-> <<>>]
                ELSE IF ~r.result.is_limited
                THEN [L |-> r.L, check |-> check, raised |-> "none", logged |-> <<>>]
                ELSE IF tier \notin DOMAIN tier_limits
                THEN [L |-> r.L, check |-> check, raised |-> "KeyError", logged |-> <<>>]
                ELSE [L |-> r.L, check |-> check, raised |-> "none",
                      logged |-> << [user_id |-> user_id, endpoint |-> endpoint,
                                     limit |-> tier_limits[tier][window],
                                     window |-> window] >>]
    IN  after(check_rate_limit(L, user_id, tier, t, budget))

-----------------------------------------------------------------------------
(* The limiter of the session and its callers *)

Users      == {"userA", "userB"}
TierInputs == {"free", "basic", "gold"}
Endpoints  == {"default"}

\* the most Redis commands one check_rate_limit issues: INCR and EXPIRE for
\* each of the three windows
MaxCommands == 6

\* the limiter as the operators above take it
CurL == [enabled |-> enabled, limiters |-> limiters, store |-> store]

\* the Redis keys of a user
UserKeys(u) ==
    { get_key(md5_hexdigest(u) \o ":minute", ToString(MINUTE) \o "s"),
      get_key(md5_hexdigest(u) \o ":hour", ToString(HOUR) \o "s"),
      get_key(md5_hexdigest(u) \o ":day", ToString(DAY) \o "s") }

\* the in-memory keys of a user
UserMemoryKeys(u) ==
    { memory_key(md5_hexdigest(u) \o ":minute", MINUTE),
      memory_key(md5_hexdigest(u) \o ":hour", HOUR),
      memory_key(md5_hexdigest(u) \o ":day", DAY) }

NoArgs == [max_requests |-> 0, window_seconds |-> 0]

NoCall ==
    [user_id |-> "", tier |-> "", store_up |-> TRUE,
     check |-> [raised |-> "none", result |-> NoResult, evaluated |-> 0,
                backend |-> "none"],
     raised |-> "none", logged |-> <<>>]

-----------------------------------------------------------------------------
(* The clock *)

Tick ==
    /\ now < MaxNow
    /\ now' = now + 1
    /\ store' = ExpireKeys(store, now + 1)
    /\ UNCHANGED <<counter, calls, redis_url, enabled, limiters, storeUp, args, last, ncalls,
                 pc, has_limiters, session, bucket, mfa, license, env_file>>

-----------------------------------------------------------------------------
(* A caller that owns one SlidingWindowCounter *)

CounterInit ==
    /\ now = 0
    /\ counter \in { SlidingWindowCounter(w, n) : w \in 0..MaxWindow, n \in 0..MaxRequests }
    /\ calls = <<>>
    /\ redis_url = NoUrl
    /\ enabled = FALSE
    /\ limiters = EmptyMap
    /\ store = EmptyMap
    /\ storeUp = TRUE
    /\ args = NoArgs
    /\ last = NoCall
    /\ ncalls = 0
    /\ pc = EmptyMap
    /\ has_limiters = FALSE
    /\ session = EmptyMap
    /\ env_file = NoEnvFile
    /\ license = NoLicense
    /\ mfa = NoMFA
    /\ bucket = NoBucket

CheckAndRecord ==
    /\ Len(calls) < MaxCalls
    /\ LET r == check_and_record(counter, now)
       IN  /\ counter' = r.counter
           /\ calls' = Append(calls, [t |-> now, ok |-> r.allowed])
    /\ UNCHANGED <<now, redis_url, enabled, limiters, store, storeUp, args, last, ncalls,
                 pc, has_limiters, session, bucket, mfa, license, env_file>>

CounterNext == CheckAndRecord \/ Tick

SpecCounter == CounterInit /\ [][CounterNext]_vars

-----------------------------------------------------------------------------
(* A caller of RedisRateLimiter.is_rate_limited on a reachable Redis server *)

SharedIdentifier == md5_hexdigest("userA") \o ":minute"

SharedKey == get_key(SharedIdentifier, ToString(args.window_seconds) \o "s")

SharedInit ==
    /\ now = 0
    /\ counter = SlidingWindowCounter(0, 0)
    /\ calls = <<>>
    /\ redis_url = WellFormed
    /\ enabled = RedisRateLimiter_enabled(redis_url)
    /\ limiters = EmptyMap
    /\ store = EmptyMap
    /\ storeUp = TRUE
    /\ args \in { [max_requests |-> n, window_seconds |-> w] :
                      n \in 0..MaxRequests, w \in 1..MaxWindow }
    /\ last = NoCall
    /\ ncalls = 0
    /\ pc = EmptyMap
    /\ has_limiters = FALSE
    /\ session = EmptyMap
    /\ env_file = NoEnvFile
    /\ license = NoLicense
    /\ mfa = NoMFA
    /\ bucket = NoBucket

IsRateLimited ==
    /\ Len(calls) < MaxCalls
    /\ LET r == is_rate_limited(CurL, SharedIdentifier, args.max_requests,
                                args.window_seconds, now, MaxCommands)
       IN  /\ store' = r.L.store
           /\ limiters' = r.L.limiters
           /\ calls' = Append(calls, [t |-> now, ok |-> ~r.limited])
    /\ UNCHANGED <<now, counter, redis_url, enabled, storeUp, args, last, ncalls,
                 pc, has_limiters, session, bucket, mfa, license, env_file>>

SharedNext == IsRateLimited \/ Tick

SpecShared == SharedInit /\ [][SharedNext]_vars

-----------------------------------------------------------------------------
(* The session: one OwaikanRateLimiter behind a SecurityManager *)

Init ==
    /\ now = 0
    /\ counter = SlidingWindowCounter(0, 0)
    /\ calls = <<>>
    /\ redis_url \in Urls
    /\ enabled = RedisRateLimiter_enabled(redis_url)
    /\ limiters = EmptyMap
    /\ store = EmptyMap
    /\ storeUp = TRUE
    /\ args = NoArgs
    /\ last = NoCall
    /\ ncalls = 0
    /\ pc = EmptyMap
    /\ has_limiters = FALSE
    /\ session = EmptyMap
    /\ env_file = NoEnvFile
    /\ license = NoLicense
    /\ mfa = NoMFA
    /\ bucket = NoBucket

\* The Redis commands of one call that succeed: none when the server is down
\* as the call starts; otherwise the connection is lost after the first
\* command of the call (the INCR of the minute key) or not during the call.
\* A limiter in local mode issues no command and leaves nothing to choose.
Budgets ==
    IF ~storeUp THEN {0}
    ELSE IF enabled THEN {1, MaxCommands} ELSE {MaxCommands}

\* SecurityManager.rate_limit(u, tier, endpoint), which runs
\* OwaikanRateLimiter.check_rate_limit(u, tier)
RateLimit ==
    \E u \in Users, tier \in TierInputs, endpoint \in Endpoints, budget \in Budgets :
        /\ ncalls < MaxOps
        /\ \E r \in { rate_limit(CurL, u, tier, endpoint, now, budget) } :
               /\ limiters' = r.L.limiters
               /\ store' = r.L.store
               /\ storeUp' = (storeUp /\ r.raised # "ConnectionError")
               /\ last' = [user_id |-> u, tier |-> tier,
                           store_up |-> storeUp /\ budget = MaxCommands,
                           check |-> r.check, raised |-> r.raised,
                           logged |-> r.logged]
        /\ ncalls' = ncalls + 1
        /\ UNCHANGED <<now, counter, calls, redis_url, enabled, args,
                 pc, has_limiters, session, bucket, mfa, license, env_file>>

\* the Redis server stops accepting commands
StoreDown ==
    /\ storeUp
    /\ storeUp' = FALSE
    /\ UNCHANGED <<now, counter, calls, redis_url, enabled, limiters, store, args, last, ncalls,
                 pc, has_limiters, session, bucket, mfa, license, env_file>>

\* the Redis server accepts commands again
StoreUp ==
    /\ ~storeUp
    /\ storeUp' = TRUE
    /\ UNCHANGED <<now, counter, calls, redis_url, enabled, limiters, store, args, last, ncalls,
                 pc, has_limiters, session, bucket, mfa, license, env_file>>

Next == RateLimit \/ StoreDown \/ StoreUp \/ Tick

Spec == Init /\ [][Next]_vars

-----------------------------------------------------------------------------
(* Properties of the directly used counter *)

CallIdx == 1..Len(calls)

\* every call accepted before call s has left the window when call s is made
BurstStart(s) ==
    \A k \in 1..(s - 1) : calls[k].ok => calls[s].t - calls[k].t >= counter.window_size

\* calls s..j are made within one window
InOneWindow(s, j) ==
    s <= j /\ calls[j].t - calls[s].t < counter.window_size

\* C1: in a burst of at most max_requests + 1 calls made within one window,
\* starting when no earlier accepted call is still in the window, the first
\* max_requests calls are allowed and the next one is rejected (with
\* max_requests = 0 the first call is already rejected).
C1_WindowCapacity ==
    \A s \in CallIdx, j \in CallIdx :
        (BurstStart(s) /\ InOneWindow(s, j) /\ j - s <= counter.max_requests)
            => (calls[j].ok <=> (j - s + 1 <= counter.max_requests))

C1_Witness ==
    \E s \in CallIdx, j \in CallIdx :
        /\ s > 1 /\ calls[1].ok
        /\ counter.max_requests >= 2
        /\ BurstStart(s) /\ InOneWindow(s, j)
        /\ j - s = counter.max_requests
        /\ \A i \in s..(j - 1) : calls[i].ok
        /\ ~calls[j].ok

\* C2: with max_requests = 1 and a call allowed at t0, a later call made
\* before t0 + window_size is rejected, and the next call made after
\* t0 + window_size (no other call accepted in between) is allowed.
C2_WindowExpiry ==
    counter.max_requests = 1 =>
        \A i \in CallIdx, j \in CallIdx :
            (i < j /\ calls[i].ok) =>
                /\ calls[j].t < calls[i].t + counter.window_size => ~calls[j].ok
                /\ ( /\ calls[j].t > calls[i].t + counter.window_size
                     /\ \A k \in (i + 1)..(j - 1) : ~calls[k].ok ) => calls[j].ok

C2_Witness ==
    /\ counter.max_requests = 1
    /\ counter.window_size >= 2
    /\ \E i \in CallIdx, j \in CallIdx, k \in CallIdx :
        /\ i < j /\ j < k
        /\ calls[i].ok
        /\ calls[j].t = calls[i].t + counter.window_size - 1 /\ ~calls[j].ok
        /\ calls[k].t = calls[i].t + counter.window_size + 1 /\ calls[k].ok

\* the accepted calls among the first n that are still in the window at time t
AcceptedLive(n, t) ==
    { k \in 1..n : calls[k].ok /\ t - calls[k].t < counter.window_size }

\* the timestamps, in order, of the accepted calls before the last one that
\* were still in the window when the last call was made, followed by the
\* timestamp of the last call if it was accepted
AcceptedLiveSeq ==
    LET final == calls[Len(calls)]
        keep(c) == c.ok /\ final.t - c.t < counter.window_size
        kept == SelectSeq(SubSeq(calls, 1, Len(calls) - 1), keep)
        times == [i \in 1..Len(kept) |-> kept[i].t]
    IN  IF final.ok THEN Append(times, final.t) ELSE times

\* C3: a rejected call is not recorded: every decision depends on the
\* accepted calls alone (a call is allowed exactly when fewer than
\* max_requests accepted calls are still in the window, however many calls
\* were rejected meanwhile), and the stored list holds exactly the accepted
\* timestamps that were in the window at the last call.
C3_RejectedNotRecorded ==
    /\ \A j \in CallIdx :
           calls[j].ok <=>
               Cardinality(AcceptedLive(j - 1, calls[j].t)) < counter.max_requests
    /\ calls # <<>> => counter.requests = AcceptedLiveSeq

C3_Witness ==
    /\ counter.max_requests >= 1
    /\ \E i \in CallIdx, j \in CallIdx, l \in CallIdx :
        /\ i < j /\ j + 1 < l
        /\ calls[i].ok
        /\ \A k \in j..(l - 1) : ~calls[k].ok
        /\ calls[l - 1].t < calls[l].t
        /\ calls[l].t = calls[i].t + counter.window_size
        /\ calls[l].ok

-----------------------------------------------------------------------------
(* Properties of the session's limiter *)

\* tier strings that are no key of tier_limits
UnknownTiers == {"gold", "Free", ""}

\* C4: for every user and every tier string that is no key of tier_limits,
\* check_rate_limit looks up the thresholds of "free" and, from the same
\* limiter state and clock, does exactly what check_rate_limit(u, "free")
\* does: same decision, same limiter afterwards.
C4_TierFallback ==
    \A u \in Users, tier \in UnknownTiers, budget \in Budgets :
        /\ limits_for(tier) = tier_limits["free"]
        /\ check_rate_limit(CurL, u, tier, now, budget)
               = check_rate_limit(CurL, u, "free", now, budget)

C4_Witness ==
    /\ ncalls > 1
    /\ last.tier = "gold"
    /\ last.check.raised = "none"
    /\ last.check.result.minute_limited
    /\ ~check_rate_limit(CurL, last.user_id, "basic", now, MaxCommands).result.minute_limited

\* C5: a call made while a shared-store URL is configured and the store is
\* unreachable raises nothing, returns a decision, and is answered and
\* counted by the in-memory counters.
C5_FailOpen ==
    (ncalls > 0 /\ redis_url # NoUrl /\ ~last.store_up) =>
        /\ last.raised = "none"
        /\ last.check.backend = "memory"
        /\ \A k \in UserMemoryKeys(last.user_id) : k \in DOMAIN limiters

UserCounters(u) ==
    [memory |-> [k \in UserMemoryKeys(u) \cap DOMAIN limiters |-> limiters[k]],
     redis  |-> [k \in UserKeys(u) \cap DOMAIN store |-> store[k]]]

\* the decision a user would get from limiter L at the present clock value,
\* the server staying reachable
Decision(L, u, tier) ==
    check_rate_limit(L, u, tier, now, MaxCommands).result

\* the limiter after the step
NextL == [enabled |-> enabled', limiters |-> limiters', store |-> store']

\* C7: a call for one user leaves every counter of every other user
\* unchanged, and with them the decision the other user would get.
C7_Independence ==
    [][ \A u \in Users :
          (ncalls' = ncalls + 1 /\ last'.user_id # u) =>
              /\ UserCounters(u)' = UserCounters(u)
              /\ \A tier \in TierInputs :
                    Decision(NextL, u, tier) = Decision(CurL, u, tier) ]_vars

C7_Witness ==
    /\ last.user_id = "userA"
    /\ last.check.raised = "none"
    /\ last.check.result.minute_limited
    /\ UserCounters("userB").memory # EmptyMap \/ UserCounters("userB").redis # EmptyMap
    /\ ~Decision(CurL, "userB", "free").is_limited

\* the windows, with their flag in the decision, their in-memory key and
\* their Redis key for user u
Windows == {"minute", "hour", "day"}

WindowSeconds(w) ==
    CASE w = "minute" -> MINUTE [] w = "hour" -> HOUR [] w = "day" -> DAY

Flag(result, w) ==
    CASE w = "minute" -> result.minute_limited
      [] w = "hour"   -> result.hour_limited
      [] w = "day"    -> result.day_limited

MemoryKeyOf(u, w) == memory_key(md5_hexdigest(u) \o ":" \o w, WindowSeconds(w))

RedisKeyOf(u, w) == get_key(md5_hexdigest(u) \o ":" \o w, ToString(WindowSeconds(w)) \o "s")

\* the value of a Redis key, 0 for a key that does not exist
ValueOf(s, k) == IF k \in DOMAIN s THEN s[k].value ELSE 0

\* the timestamps of u's in-memory counter for w that are still in the window
LiveBefore(u, w) ==
    IF MemoryKeyOf(u, w) \in DOMAIN limiters
    THEN LiveRequests(limiters[MemoryKeyOf(u, w)], now)
    ELSE <<>>

\* C8: every decision returned has is_limited = minute_limited \/
\* hour_limited \/ day_limited, and the call that returns it has evaluated
\* all three windows: on the server each of the user's three keys went up by
\* one; in memory each of the three counters exists and holds the call's
\* timestamp unless its window reported limited.
C8_DecisionIsOr ==
    [][ (ncalls' = ncalls + 1 /\ last'.check.raised = "none") =>
          LET res == last'.check.result
              u == last'.user_id
          IN  /\ res.is_limited
                    = (res.minute_limited \/ res.hour_limited \/ res.day_limited)
              /\ \A w \in Windows :
                    IF enabled
                    THEN ValueOf(store', RedisKeyOf(u, w))
                             = ValueOf(store, RedisKeyOf(u, w)) + 1
                    ELSE /\ MemoryKeyOf(u, w) \in DOMAIN limiters'
                         /\ LET reqs == limiters'[MemoryKeyOf(u, w)].requests
                            IN  ~Flag(res, w) <=>
                                    /\ reqs # <<>>
                                    /\ reqs[Len(reqs)] = now
                                    /\ Len(reqs) = 1 + Len(LiveBefore(u, w)) ]_vars

C8_Witness ==
    /\ ncalls > 0
    /\ last.check.raised = "none"
    /\ last.check.result.hour_limited
    /\ ~last.check.result.minute_limited
    /\ ~last.check.result.day_limited
    /\ last.check.result.is_limited

\* C9: SecurityManager.rate_limit never raises while the store is reachable
\* or none is configured: for every user, tier string and counter state it
\* returns the decision of check_rate_limit.
C9_NeverRaises ==
    (ncalls > 0 /\ last.store_up) => last.raised = "none"

-----------------------------------------------------------------------------
(* Properties of the shared counter *)

RECURSIVE WindowStart(_)
\* the call that created the key call j incremented: the first call, or the
\* first call made after the key of the calls before it had expired
WindowStart(j) ==
    IF j = 1 THEN 1
    ELSE LET p == WindowStart(j - 1)
         IN  IF calls[j].t < calls[p].t + args.window_seconds THEN p ELSE j

\* C10: each call increments the key once and reports blocked exactly when
\* the value after the increment exceeds max_requests: the i-th call of a
\* fixed window is allowed iff i <= max_requests, and the key holds the number
\* of calls of the window until it expires window_seconds after the first.
C10_SharedDecision ==
    /\ \A j \in CallIdx :
          calls[j].ok <=> (j - WindowStart(j) + 1 <= args.max_requests)
    /\ calls # <<>> =>
          LET n == Len(calls)
              p == WindowStart(n)
          IN  IF now < calls[p].t + args.window_seconds
              THEN /\ SharedKey \in DOMAIN store
                   /\ store[SharedKey].value = n - p + 1
                   /\ store[SharedKey].has_ttl
                   /\ store[SharedKey].expires_at = calls[p].t + args.window_seconds
              ELSE SharedKey \notin DOMAIN store

C10_Witness ==
    /\ args.max_requests >= 1
    /\ \E i \in CallIdx, j \in CallIdx :
        /\ 1 < i /\ i < j
        /\ WindowStart(i) = i /\ WindowStart(j) = i
        /\ j - i = args.max_requests + 1
        /\ calls[j - 2].ok /\ ~calls[j - 1].ok /\ ~calls[j].ok

-----------------------------------------------------------------------------
(* Threads of one process inside is_rate_limited on one limiter in local mode. *)
(* The interpreter may switch threads between any two statements of lines      *)
(* 145-154; only check_and_record runs under a lock (line 87).                 *)

Threads == {"T1", "T2"}

\* the key all threads use
ThreadKey == memory_key(SharedIdentifier, args.window_seconds)

\* the threads between line 145 and the return of line 154
Inside == { th \in Threads : pc[th] # "idle" }

ThreadInit ==
    /\ now = 0
    /\ counter = SlidingWindowCounter(0, 0)
    /\ calls = <<>>
    /\ redis_url = NoUrl
    /\ enabled = RedisRateLimiter_enabled(redis_url)
    /\ limiters = EmptyMap
    /\ store = EmptyMap
    /\ storeUp = TRUE
    /\ args \in { [max_requests |-> n, window_seconds |-> w] :
                      n \in 0..MaxRequests, w \in 1..MaxWindow }
    /\ last = NoCall
    /\ ncalls = 0
    /\ pc = [th \in Threads |-> "idle"]
    /\ has_limiters = FALSE
    /\ session = EmptyMap
    /\ env_file = NoEnvFile
    /\ license = NoLicense
    /\ mfa = NoMFA
    /\ bucket = NoBucket

\* lines 145 and 147: if not self.enabled: if not hasattr(self, '_in_memory_limiters')
ThreadEnter(th) ==
    /\ pc[th] = "idle"
    /\ ~enabled
    /\ Len(calls) + Cardinality(Inside) < MaxCalls
    /\ pc' = [pc EXCEPT ![th] = IF has_limiters THEN "test" ELSE "mkdict"]
    /\ UNCHANGED <<now, counter, calls, redis_url, enabled, limiters, store, storeUp, args,
                   last, ncalls, has_limiters, session, bucket, mfa, license, env_file>>

\* line 148: self._in_memory_limiters = {}
ThreadMkDict(th) ==
    /\ pc[th] = "mkdict"
    /\ limiters' = EmptyMap
    /\ has_limiters' = TRUE
    /\ pc' = [pc EXCEPT ![th] = "test"]
    /\ UNCHANGED <<now, counter, calls, redis_url, enabled, store, storeUp, args, last,
                   ncalls, session, bucket, mfa, license, env_file>>

\* lines 150-151: key = ...; if key not in self._in_memory_limiters
ThreadTest(th) ==
    /\ pc[th] = "test"
    /\ pc' = [pc EXCEPT ![th] = IF ThreadKey \notin DOMAIN limiters THEN "create" ELSE "record"]
    /\ UNCHANGED <<now, counter, calls, redis_url, enabled, limiters, store, storeUp, args,
                   last, ncalls, has_limiters, session, bucket, mfa, license, env_file>>

\* line 152: self._in_memory_limiters[key] = SlidingWindowCounter(window_seconds, max_requests)
ThreadCreate(th) ==
    /\ pc[th] = "create"
    /\ limiters' = (ThreadKey :> SlidingWindowCounter(args.window_seconds, args.max_requests))
                       @@ limiters
    /\ pc' = [pc EXCEPT ![th] = "record"]
    /\ UNCHANGED <<now, counter, calls, redis_url, enabled, store, storeUp, args, last,
                   ncalls, has_limiters, session, bucket, mfa, license, env_file>>

\* line 154: return not self._in_memory_limiters[key].check_and_record()
\* The counter is looked up and run in one step; the lookup raises KeyError
\* when another thread has replaced the dict since this thread's line 152.
ThreadRecord(th) ==
    /\ pc[th] = "record"
    /\ IF ThreadKey \in DOMAIN limiters
       THEN \E r \in { check_and_record(limiters[ThreadKey], now) } :
                /\ limiters' = [limiters EXCEPT ![ThreadKey] = r.counter]
                /\ calls' = Append(calls, [t |-> now, ok |-> r.allowed, raised |-> FALSE])
       ELSE /\ limiters' = limiters
            /\ calls' = Append(calls, [t |-> now, ok |-> FALSE, raised |-> TRUE])
    /\ pc' = [pc EXCEPT ![th] = "idle"]
    /\ UNCHANGED <<now, counter, redis_url, enabled, store, storeUp, args, last, ncalls,
                   has_limiters, session, bucket, mfa, license, env_file>>

ThreadNext ==
    \/ \E th \in Threads : ThreadEnter(th)
    \/ \E th \in Threads : ThreadMkDict(th)
    \/ \E th \in Threads : ThreadTest(th)
    \/ \E th \in Threads : ThreadCreate(th)
    \/ \E th \in Threads : ThreadRecord(th)
    \/ Tick

SpecThreads == ThreadInit /\ [][ThreadNext]_vars

-----------------------------------------------------------------------------
(* Properties of concurrent callers *)

\* the calls answered not-limited at a time in [a, a + w)
AllowedIn(a, w) ==
    { i \in CallIdx : calls[i].ok /\ a <= calls[i].t /\ calls[i].t < a + w }

\* C11: when threads call is_rate_limited concurrently for one key of a limiter
\* in local mode, at most max_requests calls return not-limited in any window
C11_NoLostUpdates ==
    \A a \in 0..MaxNow :
        Cardinality(AllowedIn(a, args.window_seconds)) <= args.max_requests

-----------------------------------------------------------------------------
(* Processes, each with its own limiter in shared mode, on one Redis server. *)
(* A call is the commands of lines 157-164, each served atomically by the    *)
(* server; between two commands of one call the other processes may run,    *)
(* the clock may advance and the calling process may lose its connection.    *)

Procs == {"P1", "P2"}

Idle == [at |-> "idle", current |-> 0, idx |-> 0]

\* the processes between their INCR and their return
InFlight == { p \in Procs : pc[p].at # "idle" }

\* calls start up to MaxNow; the clock then runs on for the longest window
ClockEnd == MaxNow + MaxWindow

ProcInit ==
    /\ now = 0
    /\ counter = SlidingWindowCounter(0, 0)
    /\ calls = <<>>
    /\ redis_url = WellFormed
    /\ enabled = RedisRateLimiter_enabled(redis_url)
    /\ limiters = EmptyMap
    /\ store = EmptyMap
    /\ storeUp = TRUE
    /\ args \in { [max_requests |-> n, window_seconds |-> w] :
                      n \in 0..MaxRequests, w \in 1..MaxWindow }
    /\ last = NoCall
    /\ ncalls = 0
    /\ pc = [p \in Procs |-> Idle]
    /\ has_limiters = FALSE
    /\ session = EmptyMap
    /\ env_file = NoEnvFile
    /\ license = NoLicense
    /\ mfa = NoMFA
    /\ bucket = NoBucket

\* lines 157-158: key = self._get_key(...); current = self.redis.incr(key).
\* The call enters the history as the server serves its INCR.
ProcIncr(p) ==
    /\ pc[p].at = "idle"
    /\ enabled
    /\ now <= MaxNow
    /\ Len(calls) < MaxProcCalls
    /\ \E s1 \in { incr(store, SharedKey) } :
           /\ store' = s1
           /\ calls' = Append(calls, [t |-> now, current |-> s1[SharedKey].value,
                                      returned |-> FALSE, ok |-> FALSE, raised |-> FALSE,
                                      overlapped |-> InFlight # {},
                                      created |-> SharedKey \notin DOMAIN store])
           /\ pc' = [pc EXCEPT ![p] =
                        [at |-> IF s1[SharedKey].value = 1 THEN "expire" ELSE "return",
                         current |-> s1[SharedKey].value, idx |-> Len(calls) + 1]]
    /\ UNCHANGED <<now, counter, redis_url, enabled, limiters, storeUp, args, last, ncalls,
                   has_limiters, session, bucket, mfa, license, env_file>>

\* lines 161-162: if current == 1: self.redis.expire(key, window_seconds)
ProcExpire(p) ==
    /\ pc[p].at = "expire"
    /\ store' = expire(store, SharedKey, args.window_seconds, now)
    /\ pc' = [pc EXCEPT ![p].at = "return"]
    /\ UNCHANGED <<now, counter, calls, redis_url, enabled, limiters, storeUp, args, last,
                   ncalls, has_limiters, session, bucket, mfa, license, env_file>>

\* the process dies, or loses its connection so that line 162 raises, after
\* its INCR and before the server has its EXPIRE
ProcFail(p) ==
    /\ pc[p].at = "expire"
    /\ calls' = [calls EXCEPT ![pc[p].idx].returned = TRUE, ![pc[p].idx].raised = TRUE]
    /\ pc' = [pc EXCEPT ![p] = Idle]
    /\ UNCHANGED <<now, counter, redis_url, enabled, limiters, store, storeUp, args, last,
                   ncalls, has_limiters, session, bucket, mfa, license, env_file>>

\* line 164: return current > max_requests
ProcReturn(p) ==
    /\ pc[p].at = "return"
    /\ calls' = [calls EXCEPT ![pc[p].idx].returned = TRUE,
                              ![pc[p].idx].ok = ~(pc[p].current > args.max_requests)]
    /\ pc' = [pc EXCEPT ![p] = Idle]
    /\ UNCHANGED <<now, counter, redis_url, enabled, limiters, store, storeUp, args, last,
                   ncalls, has_limiters, session, bucket, mfa, license, env_file>>

\* the clock; past MaxNow it advances once the calls in flight have ended
ProcTick ==
    /\ now < MaxNow \/ (now < ClockEnd /\ InFlight = {})
    /\ now' = now + 1
    /\ store' = ExpireKeys(store, now + 1)
    /\ UNCHANGED <<counter, calls, redis_url, enabled, limiters, storeUp, args, last, ncalls,
                   pc, has_limiters, session, bucket, mfa, license, env_file>>

ProcNext ==
    \/ \E p \in Procs : ProcIncr(p)
    \/ \E p \in Procs : ProcExpire(p)
    \/ \E p \in Procs : ProcFail(p)
    \/ \E p \in Procs : ProcReturn(p)
    \/ ProcTick

SpecProcs == ProcInit /\ [][ProcNext]_vars

\* Time passes, the server serves a command it was sent, and a process that
\* has its answer returns.
SpecProcsFair ==
    /\ SpecProcs
    /\ WF_vars(ProcTick)
    /\ \A p \in Procs : WF_vars(ProcExpire(p)) /\ WF_vars(ProcReturn(p))

\* the call whose INCR created the key that call i counted on
WindowOf(i) ==
    CHOOSE j \in 1..i : /\ calls[j].created
                        /\ \A k \in (j + 1)..i : ~calls[k].created

\* the calls of the fixed window that call j opened
CallsOfWindow(j) == { i \in CallIdx : WindowOf(i) = j }

Min(a, b) == IF a <= b THEN a ELSE b

\* C12: processes calling is_rate_limited concurrently on one key: every INCR
\* counts, and of the calls of one fixed window, once all have returned,
\* exactly min(total calls, max_requests) are answered not-limited
C12_NoLostUpdatesShared ==
    /\ \A i \in CallIdx : calls[i].current = i - WindowOf(i) + 1
    /\ \A j \in CallIdx :
           (/\ calls[j].created
            /\ \A i \in CallsOfWindow(j) : calls[i].returned /\ ~calls[i].raised)
           => Cardinality({ i \in CallsOfWindow(j) : calls[i].ok })
                  = Min(Cardinality(CallsOfWindow(j)), args.max_requests)

\* a window that took more calls than max_requests, one of them served while
\* another call was between its INCR and its return, and all have returned
C12_Witness ==
    /\ args.max_requests >= 1
    /\ Len(calls) > args.max_requests
    /\ \A i \in CallIdx : calls[i].returned /\ ~calls[i].raised
    /\ CallsOfWindow(1) = CallIdx
    /\ \E i \in CallIdx : calls[i].overlapped

\* C20: every key that is_rate_limited creates in the shared store expires in
\* the end, also when a process fails between its INCR and its EXPIRE
C20_KeysExpire ==
    (SharedKey \in DOMAIN store) ~> (SharedKey \notin DOMAIN store)

-----------------------------------------------------------------------------
(* One caller of check_rate_limit with one identifier and one tier, on a *)
(* limiter in local mode that has served no call yet                     *)

BurstInit ==
    /\ now = 0
    /\ counter = SlidingWindowCounter(0, 0)
    /\ calls = <<>>
    /\ redis_url \in {NoUrl, Malformed}
    /\ enabled = RedisRateLimiter_enabled(redis_url)
    /\ limiters = EmptyMap
    /\ store = EmptyMap
    /\ storeUp = TRUE
    /\ args \in { [user_id |-> u, tier |-> tier] : u \in {"userA"}, tier \in DOMAIN tier_limits }
    /\ last = NoCall
    /\ ncalls = 0
    /\ pc = EmptyMap
    /\ has_limiters = FALSE
    /\ session = EmptyMap
    /\ env_file = NoEnvFile
    /\ license = NoLicense
    /\ mfa = NoMFA
    /\ bucket = NoBucket

\* check_rate_limit(user_id, tier)
BurstCall ==
    /\ Len(calls) < MaxCalls
    /\ \E r \in { check_rate_limit(CurL, args.user_id, args.tier, now, MaxCommands) } :
           /\ limiters' = r.L.limiters
           /\ store' = r.L.store
           /\ calls' = Append(calls, [t |-> now, ok |-> ~r.result.is_limited,
                                      raised |-> r.raised, result |-> r.result])
    /\ UNCHANGED <<now, counter, redis_url, enabled, storeUp, args, last, ncalls,
                   pc, has_limiters, session, bucket, mfa, license, env_file>>

BurstNext == BurstCall \/ Tick

SpecBurst == BurstInit /\ [][BurstNext]_vars

\* C13: on the local backend, for a tier with thresholds (m, h, d), m <= h and
\* m <= d, and an identifier not seen before, of the calls of a burst inside
\* one minute the first m are answered is_limited = false and call m + 1 is
\* answered is_limited = true with minute_limited = true
C13_Burst ==
    LET limits == limits_for(args.tier)
    IN  (limits.minute <= limits.hour /\ limits.minute <= limits.day)
        => \A n \in CallIdx :
               (calls[n].t - calls[1].t < MINUTE)
               => /\ calls[n].raised = "none"
                  /\ n <= limits.minute => ~calls[n].result.is_limited
                  /\ n = limits.minute + 1 => /\ calls[n].result.is_limited
                                              /\ calls[n].result.minute_limited

\* a burst of m + 1 calls inside one minute, m > 1, after the clock has moved
C13_Witness ==
    /\ limits_for(args.tier).minute > 1
    /\ Len(calls) = limits_for(args.tier).minute + 1
    /\ calls[1].t > 0
    /\ calls[Len(calls)].t - calls[1].t < MINUTE
    /\ calls[Len(calls)].result.minute_limited
    /\ ~calls[Len(calls)].result.hour_limited

-----------------------------------------------------------------------------
(* Properties of the session, continued *)

\* C14: with no URL of a shared store configured the limiter is built with
\* enabled = false, and every call is answered by the in-process counters
\* with no command sent to a shared store, whether a server is reachable or not
C14_LocalOnly ==
    (redis_url = NoUrl)
    => /\ ~enabled
       /\ store = EmptyMap
       /\ ncalls > 0 => /\ last.check.backend = "memory"
                        /\ last.check.raised = "none"
                        /\ last.check.evaluated = 3

\* a call answered limited by the counters while no server is reachable
C14_Witness ==
    /\ redis_url = NoUrl
    /\ ncalls > 0
    /\ ~storeUp
    /\ last.check.result.is_limited
    /\ UserMemoryKeys(last.user_id) \subseteq DOMAIN limiters

-----------------------------------------------------------------------------
(* Bounds on the calls allowed in an interval *)

\* C15: a SlidingWindowCounter with max_requests = N allows at most N calls
\* in every interval [a, a + window_size), wherever it starts
C15_SlidingBound ==
    \A a \in 0..MaxNow :
        Cardinality(AllowedIn(a, counter.window_size)) <= counter.max_requests

\* N = 1, window_size = 2: a call allowed at 1 and a call rejected at 2, on
\* the other side of the boundary of the clock-aligned windows [0, 2), [2, 4)
C15_Witness ==
    /\ counter.window_size = 2
    /\ counter.max_requests = 1
    /\ \E i, j \in CallIdx : /\ calls[i].t = 1 /\ calls[i].ok
                             /\ calls[j].t = 2 /\ ~calls[j].ok

\* C16: on the shared backend with max_requests = N the calls answered
\* not-limited in an interval [a, a + window_seconds) never number more than
\* 2 * N (that they can number more than N is what C16_Witness reaches)
C16_FixedWindowBound ==
    \A a \in 0..MaxNow :
        Cardinality(AllowedIn(a, args.window_seconds)) <= 2 * args.max_requests

\* more than N calls allowed in one interval, across the expiry of the key
C16_Witness ==
    \E a \in 0..MaxNow :
        /\ Cardinality(AllowedIn(a, args.window_seconds)) > args.max_requests
        /\ \E i, j \in AllowedIn(a, args.window_seconds) :
               /\ calls[i].t < calls[j].t
               /\ SharedKey \in DOMAIN store
               /\ store[SharedKey].expires_at = calls[j].t + args.window_seconds

-----------------------------------------------------------------------------
(* SecurityManager.secure_function: a wrapped function called in a session *)

\* st.session_state.get(key, default)
session_get(sess, key, default) ==
    IF key \in DOMAIN sess THEN sess[key] ELSE default

\* wrapper(*args, **kwargs) of secure_function(rate_limit_tier, require_mfa,
\* log_access, endpoint_name) at clock value t: the limiter afterwards, the
\* exception raised, whether func was executed, the access events logged, and
\* the user_id and mfa_verified the wrapper read from the session
secure_function(L, sess, rate_limit_tier, require_mfa, log_access, endpoint_name, t, budget) ==
    LET user_id == session_get(sess, "user_id", "anonymous")
        mfa_verified == session_get(sess, "mfa_verified", FALSE)
        out(r, executed) ==
            [L |-> r.L, check |-> r.check, raised |-> r.raised, logged |-> r.logged,
             user_id |-> user_id, mfa_verified |-> mfa_verified,
             executed |-> executed,
             access_logged |-> executed /\ log_access]
        after(r) ==
            IF r.raised # "none" THEN out(r, FALSE)
            ELSE IF r.check.result.is_limited THEN out(r, FALSE)
            ELSE IF require_mfa /\ user_id # "anonymous" /\ ~mfa_verified THEN out(r, FALSE)
            ELSE out(r, TRUE)
    IN  after(rate_limit(L, user_id, rate_limit_tier, endpoint_name, t, budget))

\* the sessions a wrapped function is called in
Sessions ==
    { u @@ m : u \in {EmptyMap} \cup { "user_id" :> id : id \in {"userA", "anonymous"} },
               m \in {EmptyMap} \cup { "mfa_verified" :> b : b \in BOOLEAN } }

SecureInit ==
    /\ now = 0
    /\ counter = SlidingWindowCounter(0, 0)
    /\ calls = <<>>
    /\ redis_url \in {NoUrl, WellFormed}
    /\ enabled = RedisRateLimiter_enabled(redis_url)
    /\ limiters = EmptyMap
    /\ store = EmptyMap
    /\ storeUp = TRUE
    /\ args = NoArgs
    /\ last = NoCall
    /\ ncalls = 0
    /\ pc = EmptyMap
    /\ has_limiters = FALSE
    /\ session \in Sessions
    /\ env_file = NoEnvFile
    /\ license = NoLicense
    /\ mfa = NoMFA
    /\ bucket = NoBucket

\* a call of a function wrapped by secure_function
SecureCall ==
    \E tier \in {"free", "basic"}, require_mfa \in BOOLEAN, log_access \in BOOLEAN,
       endpoint \in Endpoints :
        /\ ncalls < MaxOps
        /\ \E r \in { secure_function(CurL, session, tier, require_mfa, log_access,
                                      endpoint, now, MaxCommands) } :
               /\ limiters' = r.L.limiters
               /\ store' = r.L.store
               /\ last' = [user_id |-> r.user_id, tier |-> tier, store_up |-> storeUp,
                           check |-> r.check, raised |-> r.raised, logged |-> r.logged,
                           require_mfa |-> require_mfa, mfa_verified |-> r.mfa_verified,
                           executed |-> r.executed, access_logged |-> r.access_logged]
        /\ ncalls' = ncalls + 1
        /\ UNCHANGED <<now, counter, calls, redis_url, enabled, storeUp, args,
                       pc, has_limiters, session, bucket, mfa, license, env_file>>

\* auth_system: st.session_state.user_id = user.get("id", "anonymous")
StoreUserId ==
    \E id \in {"userA", "anonymous"} :
        /\ session_get(session, "user_id", "") # id
        /\ session' = ("user_id" :> id) @@ session
        /\ UNCHANGED <<now, counter, calls, redis_url, enabled, limiters, store, storeUp,
                       args, last, ncalls, pc, has_limiters, bucket, mfa, license, env_file>>

SecureNext == SecureCall \/ StoreUserId \/ Tick

SpecSecure == SecureInit /\ [][SecureNext]_vars

\* C17: a function wrapped with require_mfa = True is executed only in a
\* session whose mfa_verified flag is true, whoever the caller is
C17_MfaRequired ==
    (ncalls > 0 /\ last.require_mfa /\ last.executed) => last.mfa_verified

-----------------------------------------------------------------------------
(* Thresholds and window boundary *)

\* the threshold of window w among the thresholds of a tier
LimitOf(limits, w) ==
    CASE w = "minute" -> limits.minute
      [] w = "hour"   -> limits.hour
      [] w = "day"    -> limits.day

\* C18: every decision of check_rate_limit(id, tier) has each window's flag
\* computed against the threshold that the tier of this call has for the
\* window, whatever tiers earlier calls for id used: the value of the key
\* in shared mode, the calls still in the window in local mode
C18_TierOfCurrentCall ==
    [][ (ncalls' = ncalls + 1 /\ last'.check.raised = "none") =>
          LET res == last'.check.result
              u == last'.user_id
              limits == limits_for(last'.tier)
          IN  \A w \in Windows :
                  Flag(res, w) =
                      IF enabled
                      THEN ValueOf(store', RedisKeyOf(u, w)) > LimitOf(limits, w)
                      ELSE ~(Len(LiveBefore(u, w)) < LimitOf(limits, w)) ]_vars

\* C19: an entry recorded at t0 still counts for a call made at exactly
\* t0 + window_size: with max_requests = 1 that call is rejected
C19_BoundaryCounts ==
    (counter.max_requests = 1 /\ counter.window_size > 0)
    => \A i, j \in CallIdx :
           (i < j /\ calls[i].ok /\ calls[j].t = calls[i].t + counter.window_size)
           => ~calls[j].ok

-----------------------------------------------------------------------------
(* The record a SlidingWindowCounter keeps *)

\* what a call of check_and_record leaves stored: at most max_requests
\* timestamps, each ts with now - ts < window_size; the list is the old one
\* less a prefix of expired timestamps, with at most one timestamp, now,
\* added at the end
BoundedRecord ==
    LET old == counter.requests
        new == counter'.requests
    IN  /\ Len(new) <= counter.max_requests
        /\ \A i \in 1..Len(new) : now - new[i] < counter.window_size
        /\ \E k \in 0..Len(old) :
               /\ \A i \in 1..k : ~(now - old[i] < counter.window_size)
               /\ new \in { SubSeq(old, k + 1, Len(old)),
                            Append(SubSeq(old, k + 1, Len(old)), now) }

-----------------------------------------------------------------------------
(* What a rejected request leaves behind, and what is logged *)

\* the events recorded for user u in window w that count at the present
\* clock value: the value of the key in shared mode, the timestamps still in
\* the window in local mode
EventCount(L, u, w) ==
    IF L.enabled
    THEN ValueOf(L.store, RedisKeyOf(u, w))
    ELSE IF MemoryKeyOf(u, w) \in DOMAIN L.limiters
         THEN Len(LiveRequests(L.limiters[MemoryKeyOf(u, w)], now))
         ELSE 0

\* C22: a call of check_rate_limit that returns is_limited = true leaves the
\* event counts of the identifier's minute, hour and day windows as they were
C22_RejectedConsumesNothing ==
    [][ (/\ ncalls' = ncalls + 1
         /\ last'.check.raised = "none"
         /\ last'.check.result.is_limited)
        => \A w \in Windows :
               EventCount(NextL, last'.user_id, w) = EventCount(CurL, last'.user_id, w) ]_vars

\* the threshold check_rate_limit applied for user u in window w in the call
\* that has just returned: the max_requests of the counter in local mode, the
\* threshold of the tier it looked up in shared mode
AppliedLimit(u, tier, w) ==
    IF enabled
    THEN LimitOf(limits_for(tier), w)
    ELSE limiters[MemoryKeyOf(u, w)].max_requests

\* the first limited window of a decision in the order minute, hour, day
FirstLimited(result) ==
    IF result.minute_limited THEN "minute"
    ELSE IF result.hour_limited THEN "hour" ELSE "day"

\* C24: SecurityManager.rate_limit logs a RATE_LIMIT_EXCEEDED event exactly
\* when the decision has is_limited = true; the event names the first limited
\* window in the order minute, hour, day and the threshold check_rate_limit
\* applied for it
C24_LoggedWhenLimited ==
    (ncalls > 0 /\ last.check.raised = "none")
    => /\ (last.logged # <<>>) = last.check.result.is_limited
       /\ last.logged # <<>> =>
              /\ Len(last.logged) = 1
              /\ last.logged[1].window = FirstLimited(last.check.result)
              /\ last.logged[1].limit
                     = AppliedLimit(last.user_id, last.tier, last.logged[1].window)

-----------------------------------------------------------------------------
(* A caller that owns one TokenBucket; time.time() is the wall clock, which *)
(* moves forward and can be set back                                        *)

BucketInit ==
    /\ now = 0
    /\ counter = SlidingWindowCounter(0, 0)
    /\ calls = <<>>
    /\ redis_url = NoUrl
    /\ enabled = FALSE
    /\ limiters = EmptyMap
    /\ store = EmptyMap
    /\ storeUp = TRUE
    /\ args = NoArgs
    /\ last = NoCall
    /\ ncalls = 0
    /\ pc = EmptyMap
    /\ has_limiters = FALSE
    /\ session = EmptyMap
    /\ env_file = NoEnvFile
    /\ license = NoLicense
    /\ mfa = NoMFA
    /\ bucket \in { TokenBucket(rate, capacity, now) :
                        rate \in 1..MaxRate, capacity \in 1..MaxRequests }

\* consume(n)
Consume ==
    \E n \in 0..(MaxRequests + 1) :
        /\ ncalls < MaxCalls
        /\ \E r \in { consume(bucket, n, now) } :
               /\ bucket' = r.bucket
               /\ last' = [n |-> n, ok |-> r.ok, refilled |-> r.refilled,
                           before |-> bucket.tokens, after |-> r.bucket.tokens,
                           elapsed |-> now - bucket.last_refill]
        /\ ncalls' = ncalls + 1
        /\ UNCHANGED <<now, counter, calls, redis_url, enabled, limiters, store, storeUp,
                       args, pc, has_limiters, session, mfa, license, env_file>>

\* the wall clock is set back
ClockBack ==
    \E t \in 0..MaxNow :
        /\ t < now
        /\ now' = t
        /\ UNCHANGED <<counter, calls, redis_url, enabled, limiters, store, storeUp, args,
                       last, ncalls, pc, has_limiters, session, bucket, mfa, license, env_file>>

BucketNext == Consume \/ Tick \/ ClockBack

SpecBucket == BucketInit /\ [][BucketNext]_vars

\* C30: whatever the wall clock returns between the calls, the token count
\* stays within 0..capacity; consume(n) returns True exactly when n is at
\* most the refilled count and then lowers the count by n, and a call that
\* returns False does not lower the count
C30_TokenBounds ==
    /\ 0 <= bucket.tokens
    /\ bucket.tokens <= bucket.capacity
    /\ ncalls > 0 =>
           /\ last.ok = (last.n <= last.refilled)
           /\ last.ok => last.after = last.refilled - last.n
           /\ ~last.ok => last.after >= last.before

-----------------------------------------------------------------------------
(* The rate_limit decorator of rate_limiting.py, with identifier_func = None *)

\* lines 193-202: the identifier of the caller
wrapper_identifier(sess, has_request, headers) ==
    LET identifier == session_get(sess, "clerk_token", "anonymous")
    IN  IF identifier = "anonymous"
        THEN IF has_request
             THEN session_get(headers, "X-Forwarded-For", "unknown")
             ELSE identifier
        ELSE identifier

\* the outcome of a wrapper call from the answers m, h, d of the three windows
wrapper_outcome(m, h, d) ==
    IF d.raised
    THEN [L |-> d.L, raised |-> "ConnectionError", executed |-> FALSE, error |-> "none",
          result |-> NoResult,
          evaluated |-> IF m.raised THEN 0 ELSE IF h.raised THEN 1 ELSE 2]
    ELSE [L |-> d.L, raised |-> "none",
          executed |-> ~m.limited /\ ~h.limited /\ ~d.limited,
          error |-> IF m.limited
                    THEN "Rate limit exceeded. Please try again in a minute."
                    ELSE IF h.limited
                    THEN "Hourly rate limit exceeded. Please try again later."
                    ELSE IF d.limited
                    THEN "Daily rate limit exceeded. Please try again tomorrow."
                    ELSE "none",
          result |-> [minute_limited |-> m.limited, hour_limited |-> h.limited,
                      day_limited |-> d.limited,
                      is_limited |-> m.limited \/ h.limited \/ d.limited],
          evaluated |-> 3]

\* a wrapper that asks the next window only while no window is limited
rate_limit_wrapper_ShortCircuit(L, identifier, requests_per_minute, requests_per_hour, requests_per_day, t, budget) ==
    LET hashed_id == md5_hexdigest(identifier)
        skip(r) == [L |-> r.L, limited |-> FALSE, raised |-> r.raised, used |-> 0,
                    backend |-> r.backend]
        m == is_rate_limited(L, hashed_id \o ":minute", requests_per_minute, MINUTE, t, budget)
        h == IF m.raised THEN m
             ELSE IF m.limited THEN skip(m)
             ELSE is_rate_limited(m.L, hashed_id \o ":hour", requests_per_hour, HOUR, t,
                                  budget - m.used)
        d == IF h.raised THEN h
             ELSE IF m.limited \/ h.limited THEN skip(h)
             ELSE is_rate_limited(h.L, hashed_id \o ":day", requests_per_day, DAY, t,
                                  budget - m.used - h.used)
    IN  wrapper_outcome(m, h, d)

\* wrapper(*args, **kwargs), lines 204-224, at clock value t on the limiter
\* the decorator built: the limiter afterwards, the exception raised, whether
\* func was executed, the error shown and the answers of the windows
rate_limit_wrapper(L, identifier, requests_per_minute, requests_per_hour, requests_per_day, t, budget) ==
    LET hashed_id == md5_hexdigest(identifier)
        m == is_rate_limited(L, hashed_id \o ":minute", requests_per_minute, MINUTE, t, budget)
        h == IF m.raised THEN m
             ELSE is_rate_limited(m.L, hashed_id \o ":hour", requests_per_hour, HOUR, t,
                                  budget - m.used)
        d == IF h.raised THEN h
             ELSE is_rate_limited(h.L, hashed_id \o ":day", requests_per_day, DAY, t,
                                  budget - m.used - h.used)
    IN  wrapper_outcome(m, h, d)

\* the arguments of the decorator and the request a wrapped function runs in
DecoratorArgs ==
    { [requests_per_minute |-> l[1], requests_per_hour |-> l[2], requests_per_day |-> l[3],
       has_request |-> hr, headers |-> hd] :
          l \in { <<1, 2, 3>>, <<2, 1, 3>>, <<2, 2, 1>>, <<0, 1, 1>> },
          hr \in BOOLEAN,
          hd \in { EmptyMap, "X-Forwarded-For" :> "10.0.0.1" } }

DecoratorInit ==
    /\ now = 0
    /\ counter = SlidingWindowCounter(0, 0)
    /\ calls = <<>>
    /\ redis_url \in {NoUrl, WellFormed}
    /\ enabled = RedisRateLimiter_enabled(redis_url)
    /\ limiters = EmptyMap
    /\ store = EmptyMap
    /\ storeUp = TRUE
    /\ args \in DecoratorArgs
    /\ last = NoCall
    /\ ncalls = 0
    /\ pc = EmptyMap
    /\ has_limiters = FALSE
    /\ session \in { EmptyMap, "clerk_token" :> "sess_token_1" }
    /\ env_file = NoEnvFile
    /\ license = NoLicense
    /\ mfa = NoMFA
    /\ bucket = NoBucket

\* a call of the wrapped function
WrappedCall ==
    \E budget \in Budgets :
        /\ ncalls < MaxOps
        /\ \E r \in { rate_limit_wrapper(CurL,
                          wrapper_identifier(session, args.has_request, args.headers),
                          args.requests_per_minute, args.requests_per_hour,
                          args.requests_per_day, now, budget) } :
               /\ limiters' = r.L.limiters
               /\ store' = r.L.store
               /\ storeUp' = (storeUp /\ r.raised # "ConnectionError")
               /\ last' = [identifier |-> wrapper_identifier(session, args.has_request,
                                                             args.headers),
                           raised |-> r.raised, executed |-> r.executed,
                           error |-> r.error, result |-> r.result,
                           evaluated |-> r.evaluated]
        /\ ncalls' = ncalls + 1
        /\ UNCHANGED <<now, counter, calls, redis_url, enabled, args, pc, has_limiters,
                       session, bucket, mfa, license, env_file>>

DecoratorNext == WrappedCall \/ StoreDown \/ StoreUp \/ Tick

SpecDecorator == DecoratorInit /\ [][DecoratorNext]_vars

\* the error shown for a limited window
ErrorOf(w) ==
    CASE w = "minute" -> "Rate limit exceeded. Please try again in a minute."
      [] w = "hour"   -> "Hourly rate limit exceeded. Please try again later."
      [] w = "day"    -> "Daily rate limit exceeded. Please try again tomorrow."

\* the threshold the decorator was given for window w
DecoratorLimit(w) ==
    CASE w = "minute" -> args.requests_per_minute
      [] w = "hour"   -> args.requests_per_hour
      [] w = "day"    -> args.requests_per_day

\* C23: a call of a function wrapped by the rate_limit decorator that returns
\* has executed the body exactly when none of the minute, hour and day windows
\* of the caller's hashed identifier reported limited; every call has asked
\* all three windows (each key went up by one on the server and was compared
\* with its threshold; each in-memory counter exists and holds the call's
\* timestamp unless its window reported limited); the error shown is that of
\* the first limited window in the order minute, hour, day
C23_DecoratorGuard ==
    [][ (ncalls' = ncalls + 1 /\ last'.raised = "none") =>
          LET res == last'.result
              id == last'.identifier
          IN  /\ last'.executed
                    = (~res.minute_limited /\ ~res.hour_limited /\ ~res.day_limited)
              /\ last'.error = IF last'.executed THEN "none" ELSE ErrorOf(FirstLimited(res))
              /\ \A w \in Windows :
                    IF enabled
                    THEN /\ ValueOf(store', RedisKeyOf(id, w))
                                = ValueOf(store, RedisKeyOf(id, w)) + 1
                         /\ Flag(res, w)
                                = (ValueOf(store', RedisKeyOf(id, w)) > DecoratorLimit(w))
                    ELSE /\ MemoryKeyOf(id, w) \in DOMAIN limiters'
                         /\ LET reqs == limiters'[MemoryKeyOf(id, w)].requests
                            IN  ~Flag(res, w) <=>
                                    /\ reqs # <<>>
                                    /\ reqs[Len(reqs)] = now
                                    /\ Len(reqs) = 1 + Len(LiveBefore(id, w)) ]_vars

\* a call from a request without a session token, identified by its
\* X-Forwarded-For header, that only the hour window limits
C23_Witness ==
    /\ ncalls > 0
    /\ "identifier" \in DOMAIN last
    /\ last.identifier = "10.0.0.1"
    /\ last.raised = "none"
    /\ ~last.executed
    /\ ~last.result.minute_limited
    /\ last.result.hour_limited
    /\ last.error = "Hourly rate limit exceeded. Please try again later."


-----------------------------------------------------------------------------
(* mfa_support.py: MFAManager and the enrollment and verification flows *)

RecoveryCount == 2   \* recovery codes per enrollment (count = 10 in the source)

\* secrets.token_hex(32): the values a random key can take
RandomKeys == {"token_hex_1", "token_hex_2"}

\* base32 secrets generate_totp_secret can return
TotpSecrets == {"JBSWY3DPEHPK3PXP", "KRSXG5CTMVRXEZLU"}

\* secrets.token_hex(10): twenty hex digits, kept as four groups of five
TokenHex == { <<"3f9a1", "c07be", "52d84", "e6b10">>,
              <<"a81d4", "09c3f", "7e256", "b0f9d">> }

\* MFAManager.__init__(secret_key), lines 26-37: secret_key or
\* st.secrets.get("MFA_SECRET_KEY", os.environ.get("MFA_SECRET_KEY", token)),
\* token being a fresh secrets.token_hex(32); "" stands for None
MFAManager(secret_key, st_secrets, environ, token) ==
    [secret_key |-> IF secret_key # ""
                    THEN secret_key
                    ELSE session_get(st_secrets, "MFA_SECRET_KEY",
                                     session_get(environ, "MFA_SECRET_KEY", token))]

\* pyotp.TOTP(secret).at(step): the code of a secret in a time step; two
\* codes are equal only for the same secret and time step
totp_at(secret, step) == [secret |-> secret, counter |-> step]

\* MFAManager.verify_totp(secret, code) in time step t, valid_window = 1
verify_totp(secret, code, t) ==
    \E d \in {-1, 0, 1} : code = totp_at(secret, t + d)

\* '-'.join of the four groups of a token (line 124)
join_hyphen(groups) ==
    <<groups[1], "-", groups[2], "-", groups[3], "-", groups[4]>>

\* code.replace('-', '')
replace_hyphen(code) == SelectSeq(code, LAMBDA g : g # "-")

\* MFAManager.generate_recovery_codes(count) from the random tokens drawn
generate_recovery_codes(tokens) ==
    [i \in DOMAIN tokens |-> join_hyphen(tokens[i])]

\* hmac.new(key, msg, sha256).hexdigest(): two digests are equal only for the
\* same key and the same message
hmac_hexdigest(key, msg) == [key |-> key, msg |-> msg]

\* MFAManager.hash_recovery_codes(codes)
hash_recovery_codes(self, codes) ==
    [i \in DOMAIN codes |-> hmac_hexdigest(self.secret_key, replace_hyphen(codes[i]))]

\* MFAManager.verify_recovery_code(code, hashed_codes)
verify_recovery_code(self, code, hashed_codes) ==
    \E i \in DOMAIN hashed_codes :
        hashed_codes[i] = hmac_hexdigest(self.secret_key, replace_hyphen(code))

\* st.session_state.pop(key, None)
session_pop(sess, key) == [k \in DOMAIN sess \ {key} |-> sess[k]]

\* an enrollment that goes from step 1 to step 2 on any submitted code
display_mfa_enrollment_NoVerify(sess, mfa_manager, user_id, ev, t, secret, codes) ==
    LET s1 == IF "mfa_enrollment_step" \notin DOMAIN sess
              THEN ("mfa_enrollment_step" :> 1) @@ ("mfa_secret" :> secret)
                   @@ ("mfa_recovery_codes" :> codes)
                   @@ ("mfa_hashed_recovery_codes" :>
                           hash_recovery_codes(mfa_manager, codes))
                   @@ sess
              ELSE sess
        step == s1["mfa_enrollment_step"]
    IN  IF step = 1
        THEN IF ev.button = "verify_mfa"
             THEN [session |-> ("mfa_enrollment_step" :> 2) @@ s1, returned |-> NoData,
                   rerun |-> TRUE, rendered |-> {}]
             ELSE [session |-> s1, returned |-> NoData, rerun |-> FALSE,
                   rendered |-> {"verify_mfa"}]
        ELSE IF step = 2
        THEN IF ev.button = "I've saved my recovery codes"
             THEN [session |-> ("mfa_enrollment_step" :> 3) @@ s1, returned |-> NoData,
                   rerun |-> TRUE, rendered |-> {}]
             ELSE [session |-> s1, returned |-> NoData, rerun |-> FALSE,
                   rendered |-> {"Download Recovery Codes",
                                 "I've saved my recovery codes"}]
        ELSE IF step = 3
        THEN [session |-> session_pop(session_pop(s1, "mfa_enrollment_step"),
                                      "mfa_recovery_codes"),
              returned |-> [user_id |-> user_id, secret |-> s1["mfa_secret"],
                            hashed_recovery_codes |-> s1["mfa_hashed_recovery_codes"],
                            enabled |-> TRUE, enrolled_at |-> t],
              rerun |-> FALSE, rendered |-> {}]
        ELSE [session |-> s1, returned |-> NoData, rerun |-> FALSE, rendered |-> {}]

\* display_mfa_enrollment(user_id, user_email), lines 181-279, one run of the
\* script in time step t with the widget event ev; secret and codes are the
\* random values the run draws when it starts an enrollment. The session
\* afterwards, the value returned, whether the run ended in st.rerun(), and
\* the widgets it rendered
display_mfa_enrollment(sess, mfa_manager, user_id, ev, t, secret, codes) ==
    LET s1 == IF "mfa_enrollment_step" \notin DOMAIN sess
              THEN ("mfa_enrollment_step" :> 1) @@ ("mfa_secret" :> secret)
                   @@ ("mfa_recovery_codes" :> codes)
                   @@ ("mfa_hashed_recovery_codes" :>
                           hash_recovery_codes(mfa_manager, codes))
                   @@ sess
              ELSE sess
        step == s1["mfa_enrollment_step"]
    IN  IF step = 1
        THEN IF ev.button = "verify_mfa" /\ verify_totp(s1["mfa_secret"], ev.code, t)
             THEN [session |-> ("mfa_enrollment_step" :> 2) @@ s1, returned |-> NoData,
                   rerun |-> TRUE, rendered |-> {}]
             ELSE [session |-> s1, returned |-> NoData, rerun |-> FALSE,
                   rendered |-> {"verify_mfa"}]
        ELSE IF step = 2
        THEN IF ev.button = "I've saved my recovery codes"
             THEN [session |-> ("mfa_enrollment_step" :> 3) @@ s1, returned |-> NoData,
                   rerun |-> TRUE, rendered |-> {}]
             ELSE [session |-> s1, returned |-> NoData, rerun |-> FALSE,
                   rendered |-> {"Download Recovery Codes",
                                 "I've saved my recovery codes"}]
        ELSE IF step = 3
        THEN [session |-> session_pop(session_pop(s1, "mfa_enrollment_step"),
                                      "mfa_recovery_codes"),
              returned |-> [user_id |-> user_id, secret |-> s1["mfa_secret"],
                            hashed_recovery_codes |-> s1["mfa_hashed_recovery_codes"],
                            enabled |-> TRUE, enrolled_at |-> t],
              rerun |-> FALSE, rendered |-> {}]
        ELSE [session |-> s1, returned |-> NoData, rerun |-> FALSE, rendered |-> {}]

\* display_mfa_verification(user_id, mfa_data), lines 282-359, one run of the
\* script in time step t with the widget event ev: the session afterwards,
\* the value returned, the mfa_data afterwards, and the widgets rendered
display_mfa_verification(sess, mfa_manager, user_id, mfa_data, ev, t) ==
    LET s1 == IF "mfa_verification_step" \notin DOMAIN sess
              THEN ("mfa_verification_step" :> 1) @@ sess
              ELSE sess
        step == s1["mfa_verification_step"]
    IN  IF step = 1
        THEN IF ev.button = "verify_mfa" /\ verify_totp(mfa_data.secret, ev.code, t)
             THEN [session |-> session_pop(s1, "mfa_verification_step"),
                   returned |-> TRUE, mfa_data |-> mfa_data, rerun |-> FALSE,
                   rendered |-> {"verify_mfa"}]
             ELSE IF ev.button = "Use a recovery code"
             THEN [session |-> ("mfa_verification_step" :> 2) @@ s1,
                   returned |-> FALSE, mfa_data |-> mfa_data, rerun |-> TRUE,
                   rendered |-> {}]
             ELSE [session |-> s1, returned |-> FALSE, mfa_data |-> mfa_data,
                   rerun |-> FALSE, rendered |-> {"verify_mfa", "Use a recovery code"}]
        ELSE IF step = 2
        THEN IF ev.button = "recovery_code"
                /\ verify_recovery_code(mfa_manager, ev.code,
                                        mfa_data.hashed_recovery_codes)
             THEN [session |-> session_pop(s1, "mfa_verification_step"),
                   returned |-> TRUE, mfa_data |-> mfa_data, rerun |-> FALSE,
                   rendered |-> {"recovery_code"}]
             ELSE IF ev.button = "Back to authenticator verification"
             THEN [session |-> ("mfa_verification_step" :> 1) @@ s1,
                   returned |-> FALSE, mfa_data |-> mfa_data, rerun |-> TRUE,
                   rendered |-> {}]
             ELSE [session |-> s1, returned |-> FALSE, mfa_data |-> mfa_data,
                   rerun |-> FALSE,
                   rendered |-> {"recovery_code", "Back to authenticator verification"}]
        ELSE [session |-> s1, returned |-> FALSE, mfa_data |-> mfa_data,
              rerun |-> FALSE, rendered |-> {}]

\* the codes a user can type into the form verify_mfa
TotpInputs ==
    { totp_at(s, c) : s \in TotpSecrets, c \in 0..MaxNow } \cup { totp_at("", 0) }

\* the codes a user can type into the form recovery_code: a code as it was
\* shown, the same without the hyphens, or a code that was never issued
RecoveryInputs ==
    LET typed == TokenHex \cup { <<"00000", "00000", "00000", "00000">> }
    IN  { join_hyphen(c) : c \in typed } \cup typed

\* the widget events of a run: a widget the previous run rendered was used,
\* or none was
Events(rendered) ==
    { [button |-> "none", code |-> NoCode] }
    \cup { [button |-> b, code |-> c] :
              b \in rendered \ {"verify_mfa", "recovery_code", "Download Recovery Codes"},
              c \in {NoCode} }
    \cup { [button |-> b, code |-> c] : b \in rendered \cap {"verify_mfa"},
                                        c \in TotpInputs }
    \cup { [button |-> b, code |-> c] : b \in rendered \cap {"recovery_code"},
                                        c \in RecoveryInputs }

\* the random values a run can draw: the key of its MFAManager, which only a
\* run that hashes or checks recovery codes with an unconfigured key uses, and
\* the secret and the tokens, which only a run that starts an enrollment uses
Draws(key_used, starting) ==
    { [token |-> k, secret |-> s, tokens |-> c] :
         k \in IF key_used THEN RandomKeys ELSE {"token_hex_1"},
         s \in IF starting THEN TotpSecrets ELSE {"JBSWY3DPEHPK3PXP"},
         c \in IF starting THEN [1..RecoveryCount -> TokenHex]
                           ELSE {[i \in 1..RecoveryCount |->
                                     <<"3f9a1", "c07be", "52d84", "e6b10">>]} }

\* the deployments: MFA_SECRET_KEY in st.secrets, in os.environ, in both, in none
Deployments ==
    { [NoMFA EXCEPT !.st_secrets = sec, !.environ = env] :
         sec \in { EmptyMap, "MFA_SECRET_KEY" :> "key_from_secrets" },
         env \in { EmptyMap, "MFA_SECRET_KEY" :> "key_from_environ" } }

KeyConfigured(m) ==
    "MFA_SECRET_KEY" \in DOMAIN m.st_secrets \cup DOMAIN m.environ

EnrollInit ==
    /\ now = 0
    /\ counter = SlidingWindowCounter(0, 0)
    /\ calls = <<>>
    /\ redis_url = NoUrl
    /\ enabled = RedisRateLimiter_enabled(redis_url)
    /\ limiters = EmptyMap
    /\ store = EmptyMap
    /\ storeUp = TRUE
    /\ args = NoArgs
    /\ last = NoCall
    /\ ncalls = 0
    /\ pc = EmptyMap
    /\ has_limiters = FALSE
    /\ session = EmptyMap
    /\ env_file = NoEnvFile
    /\ license = NoLicense
    /\ bucket = NoBucket
    /\ mfa \in Deployments

\* one run of the script that calls display_mfa_enrollment
Enrollment ==
    \E ev \in Events(mfa.rendered),
       draw \in Draws(~KeyConfigured(mfa) /\ "mfa_enrollment_step" \notin DOMAIN session,
                      "mfa_enrollment_step" \notin DOMAIN session) :
        /\ \E mfa_manager \in { MFAManager("", mfa.st_secrets, mfa.environ, draw.token) } :
           \E r \in { display_mfa_enrollment(session, mfa_manager, "userA", ev, now,
                          draw.secret, generate_recovery_codes(draw.tokens)) } :
               /\ session' = r.session
               /\ mfa' = [mfa EXCEPT
                    !.rendered = r.rendered,
                    !.returned = r.returned,
                    !.call = [fn |-> "enrollment", button |-> ev.button, code |-> ev.code,
                              step |-> session_get(session, "mfa_enrollment_step", 0),
                              used_before |-> {}],
                    !.started = IF "mfa_enrollment_step" \notin DOMAIN session
                                THEN [secret |-> draw.secret,
                                      codes |-> generate_recovery_codes(draw.tokens),
                                      hashed |-> hash_recovery_codes(mfa_manager,
                                                  generate_recovery_codes(draw.tokens))]
                                ELSE @]
        /\ UNCHANGED <<now, counter, calls, redis_url, enabled, limiters, store, storeUp,
                       args, last, ncalls, pc, has_limiters, bucket, license, env_file>>

EnrollNext == Enrollment \/ Tick

SpecEnroll == EnrollInit /\ [][EnrollNext]_vars

\* the enrollment data of a user who went through the four runs of an
\* enrollment in time step 0: start, code of the authenticator submitted,
\* recovery codes shown and confirmed, completion
Enrolled(m, draw) ==
    LET mfa_manager == MFAManager("", m.st_secrets, m.environ, draw.token)
        none == [button |-> "none", code |-> NoCode]
        run(sess, ev) ==
            display_mfa_enrollment(sess, mfa_manager, "userA", ev, 0, draw.secret,
                                   generate_recovery_codes(draw.tokens))
        s1 == run(EmptyMap, none).session
        s2 == run(s1, [button |-> "verify_mfa", code |-> totp_at(draw.secret, 0)]).session
        s3 == run(s2, [button |-> "I've saved my recovery codes", code |-> NoCode]).session
    IN  run(s3, none)

VerifyInit ==
    /\ now = 0
    /\ counter = SlidingWindowCounter(0, 0)
    /\ calls = <<>>
    /\ redis_url = NoUrl
    /\ enabled = RedisRateLimiter_enabled(redis_url)
    /\ limiters = EmptyMap
    /\ store = EmptyMap
    /\ storeUp = TRUE
    /\ args = NoArgs
    /\ last = NoCall
    /\ ncalls = 0
    /\ pc = EmptyMap
    /\ has_limiters = FALSE
    /\ bucket = NoBucket
    /\ license = NoLicense
    /\ env_file = NoEnvFile
    /\ \E m \in Deployments :
       \E draw \in Draws(~KeyConfigured(m), TRUE) :
       \E r \in { Enrolled(m, draw) } :
           /\ session = r.session
           /\ mfa = [m EXCEPT !.mfa_data = r.returned,
                              !.issued = generate_recovery_codes(draw.tokens)]

\* one run of the script that calls display_mfa_verification with the stored
\* mfa_data of the user
Verification ==
    \E ev \in Events(mfa.rendered) :
    \E draw \in Draws(~KeyConfigured(mfa) /\ ev.button = "recovery_code", FALSE) :
        /\ mfa.mfa_data.enabled
        /\ \E mfa_manager \in { MFAManager("", mfa.st_secrets, mfa.environ, draw.token) } :
           \E r \in { display_mfa_verification(session, mfa_manager, "userA",
                                               mfa.mfa_data, ev, now) } :
               /\ session' = r.session
               /\ mfa' = [mfa EXCEPT
                    !.rendered = r.rendered,
                    !.accepted = r.returned,
                    !.mfa_data = r.mfa_data,
                    !.call = [fn |-> "verification", button |-> ev.button,
                              code |-> ev.code,
                              step |-> session_get(session, "mfa_verification_step", 0),
                              used_before |-> mfa.used],
                    !.used = IF r.returned /\ ev.button = "recovery_code"
                             THEN @ \cup {replace_hyphen(ev.code)}
                             ELSE @]
        /\ UNCHANGED <<now, counter, calls, redis_url, enabled, limiters, store, storeUp,
                       args, last, ncalls, pc, has_limiters, bucket, license, env_file>>

VerifyNext == Verification \/ Tick

SpecVerify == VerifyInit /\ [][VerifyNext]_vars

\* st.session_state.mfa_enrollment_step, 0 when the key is absent
EnrollmentStep(sess) == session_get(sess, "mfa_enrollment_step", 0)

\* C25: in every run of display_mfa_enrollment the step only moves from
\* absent to 1 (an enrollment starts), from 1 to 2, from 2 to 3, and from 3 to
\* absent (the enrollment is complete); it moves to 2 only in a run whose
\* submitted code verify_totp accepts for the secret of the session;
\* enrollment data is returned exactly by a run that finds step 3, and its
\* secret and hashed recovery codes are those drawn and hashed by the run that
\* started the enrollment
C25_EnrollmentOrder ==
    [][ (mfa'.call.fn = "enrollment" /\ (session' # session \/ mfa' # mfa)) =>
          LET before == EnrollmentStep(session)
              after == EnrollmentStep(session')
              ret == mfa'.returned
          IN  /\ after # before =>
                    <<before, after>> \in { <<0, 1>>, <<1, 2>>, <<2, 3>>, <<3, 0>> }
              /\ (after = 2 /\ before # 2) =>
                    /\ mfa'.call.button = "verify_mfa"
                    /\ verify_totp(session["mfa_secret"], mfa'.call.code, now)
              /\ ret.enabled <=> before = 3
              /\ ret.enabled =>
                    /\ ret.secret = mfa.started.secret
                    /\ ret.hashed_recovery_codes = mfa.started.hashed
                    /\ ret.hashed_recovery_codes =
                          [i \in DOMAIN mfa.started.codes |->
                              hmac_hexdigest(ret.hashed_recovery_codes[i].key,
                                             replace_hyphen(mfa.started.codes[i]))]
      ]_vars

\* an enrollment went through its steps and returned what it started with
C25_Witness ==
    /\ mfa.call.fn = "enrollment"
    /\ mfa.call.step = 3
    /\ mfa.returned.enabled
    /\ mfa.returned.secret = mfa.started.secret
    /\ mfa.returned.hashed_recovery_codes = mfa.started.hashed
    /\ "mfa_enrollment_step" \notin DOMAIN session
    /\ now > 0

\* the recovery code typed is one of the codes issued at the enrollment, as
\* shown or without the hyphens
IssuedCode(code) ==
    \E i \in DOMAIN mfa.issued :
        code = mfa.issued[i] \/ code = replace_hyphen(mfa.issued[i])

\* C26: a run of display_mfa_verification in step 2 to which a recovery code
\* issued at the enrollment is submitted, with or without the hyphens, and
\* which was not accepted before, accepts it, whatever MFAManager the run
\* created
C26_IssuedCodesAccepted ==
    (/\ mfa.call.fn = "verification"
     /\ mfa.call.button = "recovery_code"
     /\ mfa.call.step = 2
     /\ IssuedCode(mfa.call.code)
     /\ replace_hyphen(mfa.call.code) \notin mfa.call.used_before)
        => mfa.accepted

\* C27: a run of display_mfa_verification to which a recovery code is
\* submitted that an earlier run accepted for the same mfa_data rejects it
C27_RecoverySingleUse ==
    (/\ mfa.call.fn = "verification"
     /\ mfa.call.button = "recovery_code"
     /\ mfa.call.step = 2
     /\ replace_hyphen(mfa.call.code) \in mfa.call.used_before)
        => ~mfa.accepted

-----------------------------------------------------------------------------
(* utils/license_manager.py: LicenseManager and the saved licence file *)

\* the keys a caller passes: none, blanks only, and two licence keys
LicenseKeys == {"", "  ", "KEY-AAAA", "KEY-BBBB"}

\* str.strip() of the content of the licence file
strip(text) == IF text = "  " THEN "" ELSE text

\* the answers of the licence server to the three requests of an activation:
\* validate-key, the licence lookup, and the machine activation; "exception"
\* is a request that raises
Responses ==
    { [validate |-> v, lookup |-> g, machine |-> m] :
         v \in {"200 valid", "200 EXPIRED", "401", "404", "exception"},
         g \in {"200 data", "200 empty", "500", "exception"},
         m \in {"201", "422", "exception"} }

\* LicenseManager._save_license(license_key): the file afterwards; when the
\* file cannot be opened for writing it stays as it was
save_license(file, license_key, writable) ==
    IF writable THEN license_key ELSE file

\* LicenseManager._load_saved_license(); "" stands for None
load_saved_license(file) ==
    IF file = NoFile THEN "" ELSE strip(file)

\* LicenseManager.check_offline()
check_offline(file) == load_saved_license(file) # ""

\* LicenseManager.validate_license(license_key), lines 59-146: the manager
\* afterwards, whether the licence is valid, and the message
validate_license(self, license_key, resp, writable) ==
    IF self.is_cloud \/ self.dev_mode
    THEN [self |-> IF license_key # ""
                   THEN [self EXCEPT !.file = save_license(@, license_key, writable)]
                   ELSE self,
          valid |-> TRUE, message |-> "License validated in cloud environment"]
    ELSE LET key == IF license_key # "" THEN license_key
                    ELSE load_saved_license(self.file)
             s1 == [self EXCEPT !.license_key = key]
         IN  IF key = ""
             THEN [self |-> s1, valid |-> FALSE, message |-> "No license key provided"]
             ELSE IF self.account_id = "" \/ self.product_id = ""
             THEN [self |-> s1, valid |-> FALSE,
                   message |-> "Keygen account or product ID not configured"]
             ELSE CASE resp.validate = "200 valid" ->
                          [self |-> [s1 EXCEPT !.file = save_license(@, key, writable)],
                           valid |-> TRUE, message |-> "License is valid"]
                    [] resp.validate = "200 EXPIRED" ->
                          [self |-> s1, valid |-> FALSE, message |-> "License has expired"]
                    [] resp.validate = "401" ->
                          [self |-> s1, valid |-> FALSE,
                           message |-> "Authentication error with license server. Please check your credentials."]
                    [] resp.validate = "404" ->
                          [self |-> s1, valid |-> FALSE, message |-> "License key not found"]
                    [] OTHER ->
                          [self |-> s1, valid |-> FALSE,
                           message |-> "Error connecting to license server"]

\* LicenseManager.activate_license(license_key), lines 148-255: the manager
\* afterwards, success, and the message
activate_license(self, license_key, resp, writable) ==
    LET fail(s, msg) == [self |-> s, success |-> FALSE, message |-> msg]
        after(v) ==
            IF ~v.valid THEN fail(v.self, v.message)
            ELSE IF resp.lookup = "exception"
            THEN fail(v.self, "Error connecting to license server")
            ELSE IF resp.lookup = "500"
            THEN fail(v.self, "Error retrieving license")
            ELSE IF resp.lookup = "200 empty"
            THEN fail(v.self, "License not found")
            ELSE IF resp.machine = "201"
            THEN [self |-> [v.self EXCEPT !.file = save_license(@, license_key, writable)],
                  success |-> TRUE, message |-> "License activated successfully"]
            ELSE IF resp.machine = "exception"
            THEN fail(v.self, "Error connecting to license server")
            ELSE fail(v.self, "Error activating license")
    IN  IF self.is_cloud
        THEN [self |-> [self EXCEPT !.file = save_license(@, license_key, writable)],
              success |-> TRUE,
              message |-> "License activated successfully in cloud environment"]
        ELSE IF license_key = ""
        THEN fail(self, "No license key provided")
        ELSE IF self.account_id = "" \/ self.product_id = ""
        THEN fail(self, "Keygen account or product ID not configured")
        ELSE after(validate_license(self, license_key, resp, writable))

LicenseInit ==
    /\ now = 0
    /\ counter = SlidingWindowCounter(0, 0)
    /\ calls = <<>>
    /\ redis_url = NoUrl
    /\ enabled = RedisRateLimiter_enabled(redis_url)
    /\ limiters = EmptyMap
    /\ store = EmptyMap
    /\ storeUp = TRUE
    /\ args = NoArgs
    /\ last = NoCall
    /\ ncalls = 0
    /\ pc = EmptyMap
    /\ has_limiters = FALSE
    /\ session = EmptyMap
    /\ env_file = NoEnvFile
    /\ bucket = NoBucket
    /\ mfa = NoMFA
    /\ \E cloud \in BOOLEAN, dev \in BOOLEAN, ids \in {"", "configured"} :
           license = [NoLicense EXCEPT !.is_cloud = cloud, !.dev_mode = dev,
                                       !.account_id = ids, !.product_id = ids]

\* a call of activate_license
ActivateLicense ==
    \E license_key \in LicenseKeys, resp \in Responses, writable \in BOOLEAN :
    \E r \in { activate_license(license, license_key, resp, writable) } :
        /\ license' = [r.self EXCEPT !.call =
                          [fn |-> "activate_license", license_key |-> license_key,
                           ok |-> r.success, message |-> r.message,
                           file_before |-> license.file]]
        /\ UNCHANGED <<now, counter, calls, redis_url, enabled, limiters, store, storeUp,
                       args, last, ncalls, pc, has_limiters, session, bucket, mfa, env_file>>

\* a call of validate_license
ValidateLicense ==
    \E license_key \in LicenseKeys, resp \in Responses, writable \in BOOLEAN :
    \E r \in { validate_license(license, license_key, resp, writable) } :
        /\ license' = [r.self EXCEPT !.call =
                          [fn |-> "validate_license", license_key |-> license_key,
                           ok |-> r.valid, message |-> r.message,
                           file_before |-> license.file]]
        /\ UNCHANGED <<now, counter, calls, redis_url, enabled, limiters, store, storeUp,
                       args, last, ncalls, pc, has_limiters, session, bucket, mfa, env_file>>

LicenseNext == ActivateLicense \/ ValidateLicense

SpecLicense == LicenseInit /\ [][LicenseNext]_vars

\* C28: outside cloud and dev mode a call of activate_license that returned
\* success = False left the saved licence file as it was, and check_offline()
\* answers as it did before the call
C28_FailedActivationKeepsFile ==
    (/\ license.call.fn = "activate_license"
     /\ ~license.is_cloud
     /\ ~license.dev_mode
     /\ ~license.call.ok)
        => /\ license.file = license.call.file_before
           /\ check_offline(license.file) = check_offline(license.call.file_before)

-----------------------------------------------------------------------------
(* utils/utils.py: the profiles of env_vars.json *)

ProfileNames == {"default", "dev", "prod"}
VarNames == {"API_KEY"}
VarValues == {"v1", "v2"}

\* d[k] = v on a dict
dict_set(d, k, v) == (k :> v) @@ d

\* del d[k]
dict_del(d, k) == [x \in DOMAIN d \ {k} |-> d[x]]

\* json.load of env_vars.json, {} when there is no file
load_env_vars(file) == IF file.exists THEN file.env_vars ELSE EmptyMap

\* json.dump of env_vars into env_vars.json: the file afterwards and what the
\* function returns; when the file cannot be written it stays as it was
dump_env_vars(file, env_vars, writable) ==
    IF writable
    THEN [file |-> [exists |-> TRUE, env_vars |-> env_vars], ok |-> TRUE]
    ELSE [file |-> [exists |-> file.exists, env_vars |-> file.env_vars], ok |-> FALSE]

\* a call that leaves the file alone and returns ok
untouched(file, ok) ==
    [file |-> [exists |-> file.exists, env_vars |-> file.env_vars], ok |-> ok]

\* env_vars with the key "profiles" (lines 123-124, 190-191, 252-253)
with_profiles(env_vars) ==
    IF "profiles" \notin DOMAIN env_vars
    THEN dict_set(env_vars, "profiles", EmptyMap)
    ELSE env_vars

\* env_vars with the profile name in env_vars["profiles"]
with_profile(env_vars, name) ==
    IF name \notin DOMAIN env_vars["profiles"]
    THEN dict_set(env_vars, "profiles", dict_set(env_vars["profiles"], name, EmptyMap))
    ELSE env_vars

\* save_env_var(var_name, value, profile), lines 97-147; "" stands for None
save_env_var(file, var_name, value, profile, writable) ==
    LET e1 == with_profiles(load_env_vars(file))
        e2 == IF "current_profile" \notin DOMAIN e1
              THEN dict_set(e1, "current_profile", "default")
              ELSE e1
        current_profile == IF profile # "" THEN profile
                           ELSE session_get(e2, "current_profile", "default")
        e3 == with_profile(e2, current_profile)
        e4 == dict_set(e3, "profiles",
                       dict_set(e3["profiles"], current_profile,
                                dict_set(e3["profiles"][current_profile], var_name, value)))
    IN  dump_env_vars(file, e4, writable)

\* set_current_profile(profile_name), lines 167-207
set_current_profile(file, profile_name, writable) ==
    LET e1 == with_profile(with_profiles(load_env_vars(file)), profile_name)
    IN  dump_env_vars(file, dict_set(e1, "current_profile", profile_name), writable)

\* create_profile(profile_name), lines 229-269
create_profile(file, profile_name, writable) ==
    LET e1 == with_profiles(load_env_vars(file))
    IN  IF profile_name \notin DOMAIN e1["profiles"]
        THEN dump_env_vars(file, with_profile(e1, profile_name), writable)
        ELSE untouched(file, TRUE)

\* delete_profile(profile_name), lines 271-306
delete_profile(file, profile_name, writable) ==
    IF profile_name = "default" THEN untouched(file, FALSE)
    ELSE IF ~file.exists THEN untouched(file, FALSE)
    ELSE LET env_vars == file.env_vars
         IN  IF "profiles" \in DOMAIN env_vars
                /\ profile_name \in DOMAIN env_vars["profiles"]
             THEN LET e1 == dict_set(env_vars, "profiles",
                                     dict_del(env_vars["profiles"], profile_name))
                      e2 == IF session_get(e1, "current_profile", "") = profile_name
                            THEN dict_set(e1, "current_profile", "default")
                            ELSE e1
                  IN  dump_env_vars(file, e2, writable)
             ELSE untouched(file, FALSE)

ProfileInit ==
    /\ now = 0
    /\ counter = SlidingWindowCounter(0, 0)
    /\ calls = <<>>
    /\ redis_url = NoUrl
    /\ enabled = RedisRateLimiter_enabled(redis_url)
    /\ limiters = EmptyMap
    /\ store = EmptyMap
    /\ storeUp = TRUE
    /\ args = NoArgs
    /\ last = NoCall
    /\ ncalls = 0
    /\ pc = EmptyMap
    /\ has_limiters = FALSE
    /\ session = EmptyMap
    /\ bucket = NoBucket
    /\ mfa = NoMFA
    /\ license = NoLicense
    /\ env_file = NoEnvFile

\* the file and the record of the call after a call that returned r
AfterCall(fn, profile_name, r) ==
    [exists |-> r.file.exists, env_vars |-> r.file.env_vars,
     call |-> [fn |-> fn, profile_name |-> profile_name, ok |-> r.ok,
               existed |-> env_file.exists, before |-> env_file.env_vars]]

SaveEnvVar ==
    \E var_name \in VarNames, value \in VarValues, profile \in ProfileNames \cup {""},
       writable \in BOOLEAN :
        /\ env_file' = AfterCall("save_env_var", profile,
                                 save_env_var(env_file, var_name, value, profile, writable))
        /\ UNCHANGED <<now, counter, calls, redis_url, enabled, limiters, store, storeUp,
                       args, last, ncalls, pc, has_limiters, session, bucket, mfa, license>>

SetCurrentProfile ==
    \E profile_name \in ProfileNames, writable \in BOOLEAN :
        /\ env_file' = AfterCall("set_current_profile", profile_name,
                                 set_current_profile(env_file, profile_name, writable))
        /\ UNCHANGED <<now, counter, calls, redis_url, enabled, limiters, store, storeUp,
                       args, last, ncalls, pc, has_limiters, session, bucket, mfa, license>>

CreateProfile ==
    \E profile_name \in ProfileNames, writable \in BOOLEAN :
        /\ env_file' = AfterCall("create_profile", profile_name,
                                 create_profile(env_file, profile_name, writable))
        /\ UNCHANGED <<now, counter, calls, redis_url, enabled, limiters, store, storeUp,
                       args, last, ncalls, pc, has_limiters, session, bucket, mfa, license>>

DeleteProfile ==
    \E profile_name \in ProfileNames, writable \in BOOLEAN :
        /\ env_file' = AfterCall("delete_profile", profile_name,
                                 delete_profile(env_file, profile_name, writable))
        /\ UNCHANGED <<now, counter, calls, redis_url, enabled, limiters, store, storeUp,
                       args, last, ncalls, pc, has_limiters, session, bucket, mfa, license>>

ProfileNext == SaveEnvVar \/ SetCurrentProfile \/ CreateProfile \/ DeleteProfile

SpecProfiles == ProfileInit /\ [][ProfileNext]_vars

\* C29: once env_vars.json was written by save_env_var, create_profile,
\* set_current_profile or delete_profile, its current_profile names a profile
\* of its profiles; delete_profile("default") returns False and leaves the
\* file as it was; a delete_profile that deleted the current profile has set
\* current_profile to "default"
C29_ProfileStore ==
    /\ env_file.exists =>
          /\ "profiles" \in DOMAIN env_file.env_vars
          /\ "current_profile" \in DOMAIN env_file.env_vars
          /\ env_file.env_vars["current_profile"] \in DOMAIN env_file.env_vars["profiles"]
    /\ (env_file.call.fn = "delete_profile" /\ env_file.call.profile_name = "default") =>
          /\ ~env_file.call.ok
          /\ env_file.exists = env_file.call.existed
          /\ env_file.env_vars = env_file.call.before
    /\ (/\ env_file.call.fn = "delete_profile"
        /\ env_file.call.ok
        /\ session_get(env_file.call.before, "current_profile", "")
              = env_file.call.profile_name) =>
          env_file.env_vars["current_profile"] = "default"

====
